---------------------------- MODULE Spec2Model ----------------------------
(***************************************************************************)
(* ReflexiveTrader Pro: the analytics engine (analytics_engine.py) and the *)
(* numeric helpers (utils.py), over trade records as the record parser     *)
(* (notion_bridge._parse_page) hands them over; the store operations of    *)
(* notion_bridge.py; the plan form and the position pages of               *)
(* input_logic.py and the log commands of main.py.                         *)
(*                                                                         *)
(* Numbers.  Python floats are modelled as exact rationals [n, d] in       *)
(* lowest terms with d > 0; Python's None is the value with d = 0, so that *)
(* an Optional[float] field is one type.  Rounding of IEEE doubles is not  *)
(* modelled.                                                               *)
(*                                                                         *)
(* State.  trades is the list[dict] an analytics function is called with,  *)
(* args the positional arguments of a scalar helper, fn the function that  *)
(* has been called ("none" before the call) and result what it returned.   *)
(***************************************************************************)
EXTENDS Integers, Sequences, FiniteSets, TLC

VARIABLES trades, args, fn, result

vars == <<trades, args, fn, result>>

----------------------------------------------------------------------------
(* Python numbers *)

Abs(x) == IF x < 0 THEN -x ELSE x

RECURSIVE GCD(_, _)
GCD(a, b) == IF b = 0 THEN a ELSE GCD(b, a % b)

\* The float n/d (d # 0), in lowest terms with a positive denominator.
Rat(n, d) ==
    LET s == IF d < 0 THEN -1 ELSE 1
        g == GCD(Abs(n), Abs(d))
    IN  [n |-> (s * n) \div g, d |-> (s * d) \div g]

Num(k) == [n |-> k, d |-> 1]

\* Python's None in a numeric field.
None == [n |-> 0, d |-> 0]

IsNone(x) == x.d = 0

\* bool(x) of an Optional[float]: None and 0.0 are falsy.
Truthy(x) == x.d # 0 /\ x.n # 0

\* x or 0
OrZero(x) == IF Truthy(x) THEN x ELSE Num(0)

RAdd(a, b) == Rat(a.n * b.d + b.n * a.d, a.d * b.d)
RSub(a, b) == Rat(a.n * b.d - b.n * a.d, a.d * b.d)
RMul(a, b) == Rat(a.n * b.n, a.d * b.d)
RDiv(a, b) == Rat(a.n * b.d, a.d * b.n)
RLt(a, b)  == a.n * b.d < b.n * a.d
RLe(a, b)  == a.n * b.d <= b.n * a.d
RMax(a, b) == IF RLt(a, b) THEN b ELSE a
RMin(a, b) == IF RLt(b, a) THEN b ELSE a
RAbs(a)    == [n |-> Abs(a.n), d |-> a.d]

\* sum(s) of a list of floats (0 for the empty list)
RECURSIVE RSum(_)
RSum(s) == IF s = <<>> THEN Num(0) ELSE RAdd(RSum(SubSeq(s, 1, Len(s) - 1)), s[Len(s)])

\* max(s) / min(s) of a non-empty list of floats
RECURSIVE RSeqMax(_)
RSeqMax(s) == IF Len(s) = 1 THEN s[1] ELSE RMax(RSeqMax(SubSeq(s, 1, Len(s) - 1)), s[Len(s)])

RECURSIVE RSeqMin(_)
RSeqMin(s) == IF Len(s) = 1 THEN s[1] ELSE RMin(RSeqMin(SubSeq(s, 1, Len(s) - 1)), s[Len(s)])

----------------------------------------------------------------------------
(* Trade records, as _parse_page builds them: every key is present, a      *)
(* number property that is empty in the store is None, a select property   *)
(* that is empty is "", position_pct is never None.                        *)

\* created_time as the parser passes it on: "" when missing, else a string
\* that pd.Timestamp either parses (giving its hour) or rejects.
Created(form, hour) == [form |-> form, hour |-> hour]

NoCreated == Created("empty", 0)

BlankTrade ==
    [ticker            |-> "AAPL",
     direction         |-> "LONG",
     status            |-> "PLANNED",
     entry_price       |-> Num(100),
     position_pct      |-> Num(0),
     profit_target     |-> None,
     risk_reward       |-> None,
     win_rate          |-> None,
     entry_emotion     |-> "",
     familiarity       |-> None,
     actual_exit       |-> None,
     actual_return_pct |-> None,
     r_multiple        |-> None,
     deviation_pct     |-> None,
     created           |-> NoCreated]

----------------------------------------------------------------------------
(* calc_statistics *)

\* pd.Series(s).cumsum()
RECURSIVE cumsum(_)
cumsum(s) ==
    IF s = <<>> THEN <<>>
    ELSE LET front == cumsum(SubSeq(s, 1, Len(s) - 1))
         IN  Append(front, IF front = <<>> THEN s[Len(s)]
                           ELSE RAdd(front[Len(front)], s[Len(s)]))

\* A running maximum that starts from 0 instead of from the first element.
RECURSIVE cummax_from_zero(_)
cummax_from_zero(s) ==
    IF s = <<>> THEN <<>>
    ELSE LET front == cummax_from_zero(SubSeq(s, 1, Len(s) - 1))
         IN  Append(front, IF front = <<>> THEN RMax(Num(0), s[Len(s)])
                           ELSE RMax(front[Len(front)], s[Len(s)]))

\* Series.cummax()
RECURSIVE cummax(_)
cummax(s) ==
    IF s = <<>> THEN <<>>
    ELSE LET front == cummax(SubSeq(s, 1, Len(s) - 1))
         IN  Append(front, IF front = <<>> THEN s[Len(s)]
                           ELSE RMax(front[Len(front)], s[Len(s)]))

\* The drawdown of the raw R values, without accumulating them.
max_drawdown_no_cumsum(r_values) ==
    LET peak == cummax(r_values)
    IN  RSeqMin([i \in 1..Len(r_values) |-> RSub(r_values[i], peak[i])])

\* cumulative - peak, then .min()
max_drawdown(r_values) ==
    LET cumulative == cumsum(r_values)
        peak       == cummax(cumulative)
        drawdown   == [i \in 1..Len(r_values) |-> RSub(cumulative[i], peak[i])]
    IN  RSeqMin(drawdown)

IsClosedWithExit(t) == t.status = "CLOSED" /\ ~IsNone(t.actual_exit)

IsWin(t) == RLt(Num(0), OrZero(t.r_multiple))

RValue(t) == OrZero(t.r_multiple)

calc_statistics(ts) ==
    LET closed   == SelectSeq(ts, IsClosedWithExit)
        wins     == SelectSeq(closed, IsWin)
        r_values == [i \in 1..Len(closed) |-> RValue(closed[i])]
    IN  IF closed = <<>>
        THEN [total |-> Len(ts), closed |-> 0, win_rate |-> Num(0), avg_r |-> Num(0),
              best_r |-> Num(0), worst_r |-> Num(0), total_r |-> Num(0),
              max_drawdown |-> Num(0), r_values |-> <<>>]
        ELSE [total        |-> Len(ts),
              closed       |-> Len(closed),
              wins         |-> Len(wins),
              losses       |-> Len(closed) - Len(wins),
              win_rate     |-> Rat(Len(wins), Len(closed)),
              avg_r        |-> RDiv(RSum(r_values), Num(Len(r_values))),
              best_r       |-> RSeqMax(r_values),
              worst_r      |-> RSeqMin(r_values),
              total_r      |-> RSum(r_values),
              max_drawdown |-> max_drawdown(r_values),
              r_values     |-> r_values]

----------------------------------------------------------------------------
(* Calling calc_statistics on every short list of records whose status,    *)
(* actual_exit and r_multiple vary.                                        *)

MaxStatsTrades == 3

StatsTrades ==
    { [BlankTrade EXCEPT !.status = "ACTIVE"] }
    \cup { [BlankTrade EXCEPT !.status = "CLOSED", !.actual_exit = x, !.r_multiple = r] :
             x \in {None, Num(120)},
             r \in {None, Num(-2), Num(-1), Num(0), Num(1), Num(2)} }

NoCall == [none |-> TRUE]

NoArgs == <<>>

InitStatistics == trades = <<>> /\ args = NoArgs /\ fn = "none" /\ result = NoCall

StatsInput ==
    /\ fn = "none"
    /\ Len(trades) < MaxStatsTrades
    /\ \E t \in StatsTrades : trades' = Append(trades, t)
    /\ UNCHANGED <<args, fn, result>>

CallCalcStatistics ==
    /\ fn = "none"
    /\ fn' = "calc_statistics"
    /\ result' = calc_statistics(trades)
    /\ UNCHANGED <<trades, args>>

NextStatistics == StatsInput \/ CallCalcStatistics

SpecStatistics == InitStatistics /\ [][NextStatistics]_vars

----------------------------------------------------------------------------
(* Properties of calc_statistics, checked under SpecStatistics *)

IsClosedWithR(t) == t.status = "CLOSED" /\ ~IsNone(t.r_multiple)

\* The R sequence the statistics are taken over: the closed trades'
\* r_multiple in record order, a missing one read as 0.
ClosedR == LET closed == SelectSeq(trades, IsClosedWithExit)
           IN  [i \in 1..Len(closed) |-> OrZero(closed[i].r_multiple)]

\* Sum of the first k elements.
PrefixSum(s, k) == RSum(SubSeq(s, 1, k))

\* The largest of the first k prefix sums.
PeakUpTo(s, k) ==
    CHOOSE p \in {PrefixSum(s, j) : j \in 1..k} :
        \A q \in {PrefixSum(s, j) : j \in 1..k} : RLe(q, p)

Drawdowns(s) == {RSub(PrefixSum(s, k), PeakUpTo(s, k)) : k \in 1..Len(s)}

NonDecreasing(s) == \A i \in 1..(Len(s) - 1) : RLe(s[i], s[i + 1])

\* C1 (as claimed): every statistic is taken over exactly the CLOSED trades
\* whose r_multiple is not None; a CLOSED trade without r_multiple is left
\* out of the sample and never counted as a trade with R = 0.
C1_SampleIsClosedWithR ==
    fn = "calc_statistics" =>
        LET sample == SelectSeq(trades, IsClosedWithR)
            rs     == [i \in 1..Len(sample) |-> sample[i].r_multiple]
        IN  /\ result.closed = Len(sample)
            /\ result.r_values = rs
            /\ result.total_r = RSum(rs)

\* C2: with at least one closed trade, max_drawdown is the least, over the
\* prefixes of the closed trades' R values in record order, of (the prefix
\* sum minus the largest prefix sum up to there), and is never above 0.
C2_MaxDrawdownIsMinOverPrefixes ==
    (fn = "calc_statistics" /\ Len(ClosedR) > 0) =>
        /\ result.max_drawdown \in Drawdowns(ClosedR)
        /\ \A d \in Drawdowns(ClosedR) : RLe(result.max_drawdown, d)
        /\ RLe(result.max_drawdown, Num(0))

C2_Witness ==
    /\ fn = "calc_statistics"
    /\ Len(ClosedR) = 3
    /\ RLt(result.max_drawdown, Num(-1))
    /\ RLt(Num(0), result.total_r)

\* C3 (as claimed): max_drawdown is never above 0 and is 0 whenever the R
\* sequence itself is non-decreasing.
C3_ZeroWhenRNonDecreasing ==
    fn = "calc_statistics" =>
        /\ RLe(result.max_drawdown, Num(0))
        /\ NonDecreasing(ClosedR) => result.max_drawdown = Num(0)

\* C3 (amended): max_drawdown is never above 0 and is 0 whenever the
\* cumulative R sequence is non-decreasing, that is when no R after the
\* first is negative.
C3_ZeroWhenCumulativeNonDecreasing ==
    fn = "calc_statistics" =>
        /\ RLe(result.max_drawdown, Num(0))
        /\ (\A i \in 2..Len(ClosedR) : RLe(Num(0), ClosedR[i]))
               => result.max_drawdown = Num(0)

C3_Witness ==
    /\ fn = "calc_statistics"
    /\ Len(ClosedR) = 3
    /\ RLt(ClosedR[1], Num(0))
    /\ \A i \in 2..3 : RLt(Num(0), ClosedR[i])
    /\ result.max_drawdown = Num(0)

----------------------------------------------------------------------------
(* utils.calc_r_multiple, called as calc_r_multiple(entry, exit_price,     *)
(* stop, direction)                                                        *)

\* The LONG branch taken for every direction.
calc_r_multiple_long_only(entry, exit_price, stop, direction) ==
    LET risk == RSub(entry, stop)
    IN  IF RLe(risk, Num(0)) THEN Num(0)
        ELSE RDiv(RSub(exit_price, entry), risk)

calc_r_multiple(entry, exit_price, stop, direction) ==
    IF direction = "LONG"
    THEN LET risk == RSub(entry, stop)
         IN  IF RLe(risk, Num(0)) THEN Num(0)
             ELSE RDiv(RSub(exit_price, entry), risk)
    ELSE LET risk == RSub(stop, entry)
         IN  IF RLe(risk, Num(0)) THEN Num(0)
             ELSE RDiv(RSub(entry, exit_price), risk)

\* Prices are the multiples of 10 up to 10 * MaxPriceSteps.
MaxPriceSteps == 12

Prices == {Num(10 * k) : k \in 1..MaxPriceSteps}

\* The options of the Direction select property.
Directions == {"LONG", "SHORT", "REDUCE_LONG", "REDUCE_SHORT"}

InitRMultiple ==
    /\ trades = <<>>
    /\ args \in {[entry |-> e, exit_price |-> x, stop |-> s, direction |-> d] :
                   e \in Prices, x \in Prices, s \in Prices, d \in Directions}
    /\ fn = "none"
    /\ result = NoCall

CallCalcRMultiple ==
    /\ fn = "none"
    /\ fn' = "calc_r_multiple"
    /\ result' = [r_multiple |->
                    calc_r_multiple(args.entry, args.exit_price, args.stop, args.direction)]
    /\ UNCHANGED <<trades, args>>

NextRMultiple == CallCalcRMultiple

SpecRMultiple == InitRMultiple /\ [][NextRMultiple]_vars

\* C4: for LONG the result times (entry - stop), and for SHORT the result
\* times (stop - entry), is the move in the trade's favour whenever that
\* risk is positive; the result is exactly 0 whenever the risk is not
\* positive; LONG 100/90/120 gives 2 and LONG 50/60/40 gives 0.
C4_RMultipleFormula ==
    (fn = "calc_r_multiple" /\ args.direction \in {"LONG", "SHORT"}) =>
        LET long == args.direction = "LONG"
            risk == IF long THEN RSub(args.entry, args.stop)
                            ELSE RSub(args.stop, args.entry)
            gain == IF long THEN RSub(args.exit_price, args.entry)
                            ELSE RSub(args.entry, args.exit_price)
        IN  /\ RLt(Num(0), risk) => RMul(result.r_multiple, risk) = gain
            /\ RLe(risk, Num(0)) => result.r_multiple = Num(0)
            /\ (long /\ args.entry = Num(100) /\ args.stop = Num(90)
                     /\ args.exit_price = Num(120)) => result.r_multiple = Num(2)
            /\ (long /\ args.entry = Num(50) /\ args.stop = Num(60)
                     /\ args.exit_price = Num(40)) => result.r_multiple = Num(0)

C4_Witness ==
    /\ fn = "calc_r_multiple"
    /\ args = [entry |-> Num(100), exit_price |-> Num(80), stop |-> Num(110),
               direction |-> "SHORT"]
    /\ result.r_multiple = Num(2)

----------------------------------------------------------------------------
(* calc_risk_profile.  Factor names and labels are the source's Chinese    *)
(* strings, written here in ASCII: avg_position, avg_risk_reward,          *)
(* avg_win_rate, kelly_utilization, trade_frequency; insufficient data,    *)
(* aggressive, leaning aggressive, balanced, leaning conservative,         *)
(* conservative.  The display strings "value" and "detail" of a factor are *)
(* left out.                                                               *)

\* min(100, x): the lower clamp forgotten.
clamp_score_no_floor(x) == RMin(Num(100), x)

\* min(100, max(0, x))
clamp_score(x) == RMin(Num(100), RMax(Num(0), x))

Factor(name, score, weight) == [name |-> name, score |-> score, weight |-> weight]

HasRiskReward(t) == Truthy(t.risk_reward)

HasWinRate(t) == Truthy(t.win_rate)

\* (wr * rr - (1 - wr)) / rr
KellyOf(t) ==
    RDiv(RSub(RMul(t.win_rate, t.risk_reward), RSub(Num(1), t.win_rate)), t.risk_reward)

\* wr and rr and wr > 0 and rr > 0, then kelly > 0
HasKellyRatio(t) ==
    /\ Truthy(t.win_rate) /\ Truthy(t.risk_reward)
    /\ RLt(Num(0), t.win_rate) /\ RLt(Num(0), t.risk_reward)
    /\ RLt(Num(0), KellyOf(t))

\* (t["position_pct"] / 100) / kelly
KellyRatio(t) == RDiv(RDiv(t.position_pct, Num(100)), KellyOf(t))

\* sum(x) / len(x) of a non-empty list
Average(xs) == RDiv(RSum(xs), Num(Len(xs)))

\* The weighted sum divided by the weights of all five factors.
weighted_score_unnormalised(factors) ==
    RSum([i \in 1..Len(factors) |-> RMul(factors[i].score, factors[i].weight)])

\* sum(score * weight) / total_weight if total_weight else 50
weighted_score(factors) ==
    LET total_weight == RSum([i \in 1..Len(factors) |-> factors[i].weight])
    IN  IF Truthy(total_weight)
        THEN RDiv(RSum([i \in 1..Len(factors) |->
                          RMul(factors[i].score, factors[i].weight)]), total_weight)
        ELSE Num(50)

\* The label chain with strict comparisons: a score on a threshold falls
\* into the lower band.
risk_label_strict(score) ==
    IF RLt(Num(75), score) THEN "aggressive"
    ELSE IF RLt(Num(55), score) THEN "leaning aggressive"
    ELSE IF RLt(Num(45), score) THEN "balanced"
    ELSE IF RLt(Num(25), score) THEN "leaning conservative"
    ELSE "conservative"

risk_label(score) ==
    IF RLe(Num(75), score) THEN "aggressive"
    ELSE IF RLe(Num(55), score) THEN "leaning aggressive"
    ELSE IF RLe(Num(45), score) THEN "balanced"
    ELSE IF RLe(Num(25), score) THEN "leaning conservative"
    ELSE "conservative"

\* The default with a score of 0 in place of the neutral 50.
insufficient_data_zero_score ==
    [score |-> Num(0), label |-> "insufficient data", factors |-> <<>>]

\* {"score": 50, "label": "insufficient data", "factors": []}
insufficient_data == [score |-> Num(50), label |-> "insufficient data", factors |-> <<>>]

calc_risk_profile(ts) ==
    IF ts = <<>> THEN insufficient_data
    ELSE
    LET avg_pos   == Average([i \in 1..Len(ts) |-> ts[i].position_pct])
        pos_score == clamp_score(RMul(RDiv(RSub(avg_pos, Num(1)), Num(14)), Num(100)))
        f1        == <<Factor("avg_position", pos_score, Rat(30, 100))>>
        rr_with   == SelectSeq(ts, HasRiskReward)
        rr_values == [i \in 1..Len(rr_with) |-> rr_with[i].risk_reward]
        avg_rr    == Average(rr_values)
        rr_score  == clamp_score(RSub(Num(100),
                         RMul(RDiv(RSub(avg_rr, Rat(5, 10)), Num(4)), Num(100))))
        f2        == IF rr_values # <<>>
                     THEN Append(f1, Factor("avg_risk_reward", rr_score, Rat(25, 100)))
                     ELSE f1
        wr_with   == SelectSeq(ts, HasWinRate)
        wr_values == [i \in 1..Len(wr_with) |-> wr_with[i].win_rate]
        avg_wr    == Average(wr_values)
        wr_score  == clamp_score(RSub(Num(100),
                         RMul(RDiv(RSub(avg_wr, Rat(2, 10)), Rat(6, 10)), Num(100))))
        f3        == IF wr_values # <<>>
                     THEN Append(f2, Factor("avg_win_rate", wr_score, Rat(20, 100)))
                     ELSE f2
        k_with    == SelectSeq(ts, HasKellyRatio)
        kelly_ratios    == [i \in 1..Len(k_with) |-> KellyRatio(k_with[i])]
        avg_kelly_ratio == Average(kelly_ratios)
        kelly_score     == clamp_score(RMul(RDiv(avg_kelly_ratio, Rat(15, 10)), Num(100)))
        f4        == IF kelly_ratios # <<>>
                     THEN Append(f3, Factor("kelly_utilization", kelly_score, Rat(15, 100)))
                     ELSE f3
        freq_score == clamp_score(RMul(RDiv(Num(Len(ts)), Num(20)), Num(100)))
        factors   == Append(f4, Factor("trade_frequency", freq_score, Rat(10, 100)))
        score     == weighted_score(factors)
    IN  [score |-> score, label |-> risk_label(score), factors |-> factors]

\* Calling calc_risk_profile on every short list of records whose
\* position_pct, risk_reward and win_rate vary.
MaxRiskTrades == 2

RiskTrades ==
    { [BlankTrade EXCEPT !.position_pct = p, !.risk_reward = rr, !.win_rate = wr] :
        p  \in {Num(1), Num(5), Num(100)},
        rr \in {None, Num(0), Rat(1, 10), Num(2), Num(5)},
        wr \in {None, Num(0), Rat(3, 5), Rat(19, 20)} }

InitRiskProfile == trades = <<>> /\ args = NoArgs /\ fn = "none" /\ result = NoCall

RiskInput ==
    /\ fn = "none"
    /\ Len(trades) < MaxRiskTrades
    /\ \E t \in RiskTrades : trades' = Append(trades, t)
    /\ UNCHANGED <<args, fn, result>>

CallCalcRiskProfile ==
    /\ fn = "none"
    /\ fn' = "calc_risk_profile"
    /\ result' = calc_risk_profile(trades)
    /\ UNCHANGED <<trades, args>>

NextRiskProfile == RiskInput \/ CallCalcRiskProfile

SpecRiskProfile == InitRiskProfile /\ [][NextRiskProfile]_vars

----------------------------------------------------------------------------
(* Properties of calc_risk_profile, checked under SpecRiskProfile *)

InPercentRange(x) == RLe(Num(0), x) /\ RLe(x, Num(100))

FactorNames == {result.factors[i].name : i \in 1..Len(result.factors)}

\* The weight each factor is to carry.
WeightOf(name) ==
    CASE name = "avg_position"      -> Rat(30, 100)
      [] name = "avg_risk_reward"   -> Rat(25, 100)
      [] name = "avg_win_rate"      -> Rat(20, 100)
      [] name = "kelly_utilization" -> Rat(15, 100)
      [] name = "trade_frequency"   -> Rat(10, 100)

\* Some trade has positive win_rate, positive risk_reward and a positive
\* Kelly fraction, (wr * rr - (1 - wr)) / rr > 0.
SomeTradeHasPositiveKelly ==
    \E i \in 1..Len(trades) :
        LET wr == trades[i].win_rate
            rr == trades[i].risk_reward
        IN  /\ ~IsNone(wr) /\ ~IsNone(rr)
            /\ RLt(Num(0), wr) /\ RLt(Num(0), rr)
            /\ RLt(RSub(Num(1), wr), RMul(wr, rr))

\* The final score is the weighted sum of the reported factors divided by
\* the sum of their weights, and each factor is reported once with its weight.
ScoreIsRenormalisedAverage ==
    LET fs == result.factors
    IN  /\ \A i, j \in 1..Len(fs) : fs[i].name = fs[j].name => i = j
        /\ \A i \in 1..Len(fs) : fs[i].weight = WeightOf(fs[i].name)
        /\ RMul(result.score, RSum([i \in 1..Len(fs) |-> WeightOf(fs[i].name)]))
             = RSum([i \in 1..Len(fs) |-> RMul(fs[i].score, WeightOf(fs[i].name))])

\* C5: for a non-empty trade list the final score and every factor's score
\* lie in [0, 100], whatever position_pct, risk_reward and win_rate are.
C5_ScoresWithinRange ==
    (fn = "calc_risk_profile" /\ trades # <<>>) =>
        /\ InPercentRange(result.score)
        /\ \A i \in 1..Len(result.factors) : InPercentRange(result.factors[i].score)

C5_Witness ==
    /\ fn = "calc_risk_profile"
    /\ \E i \in 1..Len(trades) :
          /\ trades[i].position_pct = Num(100)
          /\ trades[i].win_rate = Rat(19, 20)
          /\ trades[i].risk_reward = Rat(1, 10)
    /\ Len(result.factors) = 5
    /\ \E i \in 1..5 : result.factors[i].score = Num(100)
    /\ \E i \in 1..5 : result.factors[i].score = Num(0)

\* C6 (as claimed): the score is the renormalised weighted average over
\* exactly the factors whose data exists: position size and trade frequency
\* always, reward:risk iff some trade has risk_reward set, win rate iff some
\* trade has win_rate set, Kelly iff some trade has positive win_rate,
\* positive risk_reward and a positive Kelly fraction.
C6_FactorsIffDataSet ==
    (fn = "calc_risk_profile" /\ trades # <<>>) =>
        /\ ScoreIsRenormalisedAverage
        /\ FactorNames =
             {"avg_position", "trade_frequency"}
             \cup (IF \E i \in 1..Len(trades) : ~IsNone(trades[i].risk_reward)
                   THEN {"avg_risk_reward"} ELSE {})
             \cup (IF \E i \in 1..Len(trades) : ~IsNone(trades[i].win_rate)
                   THEN {"avg_win_rate"} ELSE {})
             \cup (IF SomeTradeHasPositiveKelly THEN {"kelly_utilization"} ELSE {})

\* C6 (amended): as C6, with reward:risk included iff some trade has a
\* risk_reward that is set and not 0, and win rate iff some trade has a
\* win_rate that is set and not 0.
C6_FactorsIffDataNonZero ==
    (fn = "calc_risk_profile" /\ trades # <<>>) =>
        /\ ScoreIsRenormalisedAverage
        /\ FactorNames =
             {"avg_position", "trade_frequency"}
             \cup (IF \E i \in 1..Len(trades) :
                        ~IsNone(trades[i].risk_reward) /\ trades[i].risk_reward # Num(0)
                   THEN {"avg_risk_reward"} ELSE {})
             \cup (IF \E i \in 1..Len(trades) :
                        ~IsNone(trades[i].win_rate) /\ trades[i].win_rate # Num(0)
                   THEN {"avg_win_rate"} ELSE {})
             \cup (IF SomeTradeHasPositiveKelly THEN {"kelly_utilization"} ELSE {})
        /\ FactorNames = {"avg_position", "trade_frequency"} =>
             RMul(result.score, Rat(40, 100)) =
                 RAdd(RMul(result.factors[1].score, Rat(30, 100)),
                      RMul(result.factors[2].score, Rat(10, 100)))

C6_Witness ==
    /\ fn = "calc_risk_profile"
    /\ Len(trades) = 2
    /\ FactorNames = {"avg_position", "avg_risk_reward", "trade_frequency"}
    /\ \E i \in 1..2 : trades[i].risk_reward = Num(0)
    /\ RLt(Num(0), result.score)
    /\ RLt(result.score, Num(100))

----------------------------------------------------------------------------
(* calc_discipline_score *)

\* The filter without the status test.
IsDisciplineSample_any_status(t) ==
    Truthy(t.entry_price) /\ Truthy(t.actual_exit) /\ Truthy(t.profit_target)

\* t["status"] == "CLOSED" and t["entry_price"] and t["actual_exit"] and t["profit_target"]
IsDisciplineSample(t) ==
    /\ t.status = "CLOSED"
    /\ Truthy(t.entry_price) /\ Truthy(t.actual_exit) /\ Truthy(t.profit_target)

\* abs((t["deviation_pct"] or 0))
Deviation(t) == RAbs(OrZero(t.deviation_pct))

calc_discipline_score(ts) ==
    LET closed == SelectSeq(ts, IsDisciplineSample)
    IN  IF closed = <<>>
        THEN [score |-> Num(100), avg_deviation |-> Num(0), details |-> <<>>]
        ELSE LET deviations == [i \in 1..Len(closed) |->
                                  [ticker |-> closed[i].ticker,
                                   deviation |-> Deviation(closed[i])]]
                 avg_dev == RDiv(RSum([i \in 1..Len(deviations) |->
                                         deviations[i].deviation]),
                                 Num(Len(deviations)))
                 score   == RMax(Num(0), RSub(Num(100), RMul(avg_dev, Num(100))))
             IN  [score |-> score, avg_deviation |-> avg_dev, details |-> deviations]

\* Calling calc_discipline_score on every short list of records whose
\* status, entry_price, actual_exit, profit_target and deviation_pct vary.
MaxDisciplineTrades == 2

DisciplineTrades ==
    { [BlankTrade EXCEPT !.status = "ACTIVE", !.actual_exit = Num(110),
                         !.profit_target = Num(120), !.deviation_pct = Rat(1, 12)] }
    \cup { [BlankTrade EXCEPT !.status = "CLOSED", !.entry_price = e, !.actual_exit = x,
                              !.profit_target = pt, !.deviation_pct = dv] :
             e  \in {None, Num(100)},
             x  \in {None, Num(0), Num(110)},
             pt \in {None, Num(120)},
             dv \in {None, Rat(1, 12), Num(1), Rat(3, 2)} }

InitDiscipline == trades = <<>> /\ args = NoArgs /\ fn = "none" /\ result = NoCall

DisciplineInput ==
    /\ fn = "none"
    /\ Len(trades) < MaxDisciplineTrades
    /\ \E t \in DisciplineTrades : trades' = Append(trades, t)
    /\ UNCHANGED <<args, fn, result>>

CallCalcDisciplineScore ==
    /\ fn = "none"
    /\ fn' = "calc_discipline_score"
    /\ result' = calc_discipline_score(trades)
    /\ UNCHANGED <<trades, args>>

NextDiscipline == DisciplineInput \/ CallCalcDisciplineScore

SpecDiscipline == InitDiscipline /\ [][NextDiscipline]_vars

----------------------------------------------------------------------------
(* Properties of calc_discipline_score, checked under SpecDiscipline *)

\* A closed trade whose entry_price, actual_exit and profit_target are all
\* not None.
HasCompleteTriple(t) ==
    /\ t.status = "CLOSED"
    /\ ~IsNone(t.entry_price) /\ ~IsNone(t.actual_exit) /\ ~IsNone(t.profit_target)

\* C7 (as claimed): when some closed trade has entry_price, actual_exit and
\* profit_target all not None, the score is max(0, 100 - 100 * mean of
\* |deviation_pct|) over exactly those trades, and so lies in [0, 100].
C7_ScoreOverCompleteTriples ==
    fn = "calc_discipline_score" =>
        LET q    == SelectSeq(trades, HasCompleteTriple)
            devs == [i \in 1..Len(q) |-> RAbs(OrZero(q[i].deviation_pct))]
            mean == RDiv(RSum(devs), Num(Len(q)))
        IN  Len(q) > 0 =>
              /\ result.score = RMax(Num(0), RSub(Num(100), RMul(Num(100), mean)))
              /\ InPercentRange(result.score)

\* C8: the score is exactly 100 whenever no trade of the input is closed
\* with entry_price, actual_exit and profit_target all present, the empty
\* input included.
C8_DefaultScoreIs100 ==
    (fn = "calc_discipline_score" /\ \A i \in 1..Len(trades) : ~HasCompleteTriple(trades[i]))
        => result.score = Num(100)

C8_Witness ==
    /\ fn = "calc_discipline_score"
    /\ Len(trades) = 2
    /\ trades[1].status = "ACTIVE" /\ ~IsNone(trades[1].deviation_pct)
    /\ trades[2].status = "CLOSED" /\ IsNone(trades[2].profit_target)
    /\ ~IsNone(trades[2].actual_exit) /\ trades[2].deviation_pct = Num(1)
    /\ result.score = Num(100)

----------------------------------------------------------------------------
(* find_error_fingerprints.  A dict is the list of its entries in          *)
(* insertion order.  The period labels are the source's, without their     *)
(* Chinese prefix: pre-10, 10-14, 14-16, 16+.  A pattern string is the     *)
(* record of what is printed in it: which of the two templates (kind), the *)
(* bucket label, the count and the average R in hundredths.                *)

\* t["status"] == "CLOSED" and (t["r_multiple"] or 0) < 0
IsLoser(t) == t.status = "CLOSED" /\ RLt(OrZero(t.r_multiple), Num(0))

\* t.get("entry_emotion", "unknown")
EmotionKey(t) == IF "entry_emotion" \in DOMAIN t THEN t.entry_emotion ELSE "unknown"

\* The period of an hour, with 10 o'clock counted as before 10.
period_of_hour_10_early(hour) ==
    IF hour <= 10 THEN "pre-10"
    ELSE IF hour < 14 THEN "10-14"
    ELSE IF hour < 16 THEN "14-16"
    ELSE "16+"

period_of_hour(hour) ==
    IF hour < 10 THEN "pre-10"
    ELSE IF hour < 14 THEN "10-14"
    ELSE IF hour < 16 THEN "14-16"
    ELSE "16+"

\* Whether the loop body reaches by_period[period].append: created is not
\* empty and pd.Timestamp(created) does not raise.
HasPeriod(t) == t.created.form # "empty" /\ t.created.form # "garbage"

PeriodKey(t) == period_of_hour(t.created.hour)

\* d[key].append(value) on a defaultdict(list)
DictAppend(d, key, value) ==
    IF \E i \in 1..Len(d) : d[i].key = key
    THEN [i \in 1..Len(d) |->
            IF d[i].key = key THEN [d[i] EXCEPT !.values = Append(@, value)] ELSE d[i]]
    ELSE Append(d, [key |-> key, values |-> <<value>>])

RECURSIVE group_by_emotion(_)
group_by_emotion(losers) ==
    IF losers = <<>> THEN <<>>
    ELSE LET t == losers[Len(losers)]
         IN  DictAppend(group_by_emotion(SubSeq(losers, 1, Len(losers) - 1)),
                        EmotionKey(t), t.r_multiple)

RECURSIVE group_by_period(_)
group_by_period(losers) ==
    IF losers = <<>> THEN <<>>
    ELSE LET t     == losers[Len(losers)]
             front == group_by_period(SubSeq(losers, 1, Len(losers) - 1))
         IN  IF HasPeriod(t) THEN DictAppend(front, PeriodKey(t), t.r_multiple) ELSE front

\* f"{x:.2f}": the number of hundredths nearest to x, a tie going to the even
\* one (the digits printed are those of this integer).
format_2f(x) ==
    LET a == Abs(x.n) * 100
        q == a \div x.d
        r == a % x.d
        m == IF 2 * r > x.d \/ (2 * r = x.d /\ q % 2 = 1) THEN q + 1 ELSE q
    IN  IF x.n < 0 THEN -m ELSE m

\* A bucket is reported as a pattern whatever its count.
IsPattern_any_count(st) == st.count >= 1

\* if stats["count"] >= 2
IsPattern(st) == st.count >= 2

find_error_fingerprints(ts) ==
    LET losers == SelectSeq(ts, IsLoser)
    IN  IF losers = <<>>
        THEN [by_emotion |-> <<>>, by_period |-> <<>>, patterns |-> <<>>]
        ELSE
        LET by_emotion    == group_by_emotion(losers)
            emotion_stats == [i \in 1..Len(by_emotion) |->
                                [key     |-> by_emotion[i].key,
                                 count   |-> Len(by_emotion[i].values),
                                 avg_r   |-> Average(by_emotion[i].values),
                                 total_r |-> RSum(by_emotion[i].values)]]
            by_period     == group_by_period(losers)
            period_stats  == [i \in 1..Len(by_period) |->
                                [key   |-> by_period[i].key,
                                 count |-> Len(by_period[i].values),
                                 avg_r |-> Average(by_period[i].values)]]
            e_hits        == SelectSeq(emotion_stats, IsPattern)
            p_hits        == SelectSeq(period_stats, IsPattern)
            patterns      ==
                [i \in 1..Len(e_hits) |->
                   [kind |-> "emotion", bucket |-> e_hits[i].key,
                    count |-> e_hits[i].count, avg_2f |-> format_2f(e_hits[i].avg_r)]]
                \o [i \in 1..Len(p_hits) |->
                      [kind |-> "period", bucket |-> p_hits[i].key,
                       count |-> p_hits[i].count, avg_2f |-> format_2f(p_hits[i].avg_r)]]
        IN  [by_emotion |-> emotion_stats, by_period |-> period_stats,
             patterns |-> patterns]

\* Calling find_error_fingerprints on every short list of records whose
\* status, r_multiple, entry_emotion and creation time vary.
MaxFingerprintTrades == 2

CreatedTimes ==
    {NoCreated, Created("garbage", 0)}
    \cup {Created("iso", h) : h \in {9, 10, 13, 14, 15, 16}}

FingerprintTrades ==
    { [BlankTrade EXCEPT !.status = "ACTIVE", !.r_multiple = Num(-1),
                         !.entry_emotion = "fomo", !.created = Created("iso", 9)],
      [BlankTrade EXCEPT !.status = "CLOSED", !.r_multiple = None,
                         !.entry_emotion = "fomo", !.created = Created("iso", 9)],
      [BlankTrade EXCEPT !.status = "CLOSED", !.r_multiple = Num(1),
                         !.entry_emotion = "fomo", !.created = Created("iso", 9)] }
    \cup { [BlankTrade EXCEPT !.status = "CLOSED", !.r_multiple = r,
                              !.entry_emotion = em, !.created = c] :
             r  \in {Num(-2), Num(-1)},
             em \in {"fomo", "calm", ""},
             c  \in CreatedTimes }

InitFingerprints == trades = <<>> /\ args = NoArgs /\ fn = "none" /\ result = NoCall

FingerprintInput ==
    /\ fn = "none"
    /\ Len(trades) < MaxFingerprintTrades
    /\ \E t \in FingerprintTrades : trades' = Append(trades, t)
    /\ UNCHANGED <<args, fn, result>>

CallFindErrorFingerprints ==
    /\ fn = "none"
    /\ fn' = "find_error_fingerprints"
    /\ result' = find_error_fingerprints(trades)
    /\ UNCHANGED <<trades, args>>

NextFingerprints == FingerprintInput \/ CallFindErrorFingerprints

SpecFingerprints == InitFingerprints /\ [][NextFingerprints]_vars

----------------------------------------------------------------------------
(* Properties of find_error_fingerprints, checked under SpecFingerprints *)

\* The positions of the losing closed trades in the input.
LosingTrades ==
    {i \in 1..Len(trades) :
        /\ trades[i].status = "CLOSED"
        /\ ~IsNone(trades[i].r_multiple)
        /\ RLt(trades[i].r_multiple, Num(0))}

\* The bucket the claim assigns a losing trade to by emotion.
ClaimedEmotionBucket(t) == IF t.entry_emotion = "" THEN "unknown" ELSE t.entry_emotion

\* The period the claim assigns an hour to.
ClaimedPeriod(h) ==
    CASE h < 10            -> "pre-10"
      [] h \in 10..13      -> "10-14"
      [] h \in 14..15      -> "14-16"
      [] h >= 16           -> "16+"

HasParseableTime(t) == t.created.form = "iso"

\* The sum of r_multiple over the trades at the positions S.
RECURSIVE SumROver(_)
SumROver(S) ==
    IF S = {} THEN Num(0)
    ELSE LET i == CHOOSE j \in S : TRUE
         IN  RAdd(trades[i].r_multiple, SumROver(S \ {i}))

\* The entries of a stats dict have distinct keys and positive counts.
WellFormedDict(d) ==
    /\ \A i, j \in 1..Len(d) : d[i].key = d[j].key => i = j
    /\ \A i \in 1..Len(d) : d[i].count > 0

\* The count a stats dict reports for a key (0 when the key is absent).
CountOf(d, key) ==
    IF \E i \in 1..Len(d) : d[i].key = key
    THEN (CHOOSE e \in {d[i] : i \in 1..Len(d)} : e.key = key).count
    ELSE 0

RECURSIVE TotalCount(_)
TotalCount(d) == IF d = <<>> THEN 0 ELSE TotalCount(SubSeq(d, 1, Len(d) - 1)) + d[Len(d)].count

\* C9 (as claimed): every losing closed trade whose entry_emotion is missing
\* is counted in the emotion bucket "unknown", and each emotion bucket
\* reports the count, average R and total R of exactly the losing trades
\* assigned to it.
C9_MissingEmotionIsUnknown ==
    fn = "find_error_fingerprints" =>
        /\ WellFormedDict(result.by_emotion)
        /\ \A k \in {"unknown", "fomo", "calm", ""} :
             LET members == {i \in LosingTrades : ClaimedEmotionBucket(trades[i]) = k}
             IN  /\ CountOf(result.by_emotion, k) = Cardinality(members)
                 /\ \A j \in 1..Len(result.by_emotion) :
                      result.by_emotion[j].key = k =>
                        /\ result.by_emotion[j].total_r = SumROver(members)
                        /\ RMul(result.by_emotion[j].avg_r, Num(Cardinality(members)))
                             = SumROver(members)

\* C10: each losing closed trade with a parseable creation time is counted
\* in exactly the period bucket of its hour (before 10, 10-13, 14-15, from
\* 16), one with a missing or unparseable time in no period bucket but
\* still in its emotion bucket: the emotion counts add up to the number of
\* losing trades, the period counts to the number of those with a parseable
\* time, which is at most that.
C10_PeriodBuckets ==
    fn = "find_error_fingerprints" =>
        /\ WellFormedDict(result.by_period)
        /\ WellFormedDict(result.by_emotion)
        /\ \A k \in {"pre-10", "10-14", "14-16", "16+"} :
             CountOf(result.by_period, k) =
                Cardinality({i \in LosingTrades :
                               /\ HasParseableTime(trades[i])
                               /\ ClaimedPeriod(trades[i].created.hour) = k})
        /\ \A j \in 1..Len(result.by_period) :
             result.by_period[j].key \in {"pre-10", "10-14", "14-16", "16+"}
        /\ TotalCount(result.by_emotion) = Cardinality(LosingTrades)
        /\ TotalCount(result.by_period) =
             Cardinality({i \in LosingTrades : HasParseableTime(trades[i])})
        /\ TotalCount(result.by_period) <= Cardinality(LosingTrades)

C10_Witness ==
    /\ fn = "find_error_fingerprints"
    /\ Cardinality(LosingTrades) = 2
    /\ trades[1].created = Created("garbage", 0)
    /\ trades[2].created = Created("iso", 14)
    /\ CountOf(result.by_period, "14-16") = 1
    /\ TotalCount(result.by_period) = 1
    /\ TotalCount(result.by_emotion) = 2

----------------------------------------------------------------------------
(* The patterns of find_error_fingerprints, on lists long enough for three *)
(* losing trades to share a bucket.                                        *)

MaxPatternTrades == 3

PatternTrades ==
    { [BlankTrade EXCEPT !.status = "CLOSED", !.r_multiple = Num(1),
                         !.entry_emotion = "fomo", !.created = Created("iso", 9)] }
    \cup { [BlankTrade EXCEPT !.status = "CLOSED", !.r_multiple = r,
                              !.entry_emotion = em, !.created = c] :
             r  \in {Num(-2), Num(-1)},
             em \in {"fomo", "calm"},
             c  \in {NoCreated, Created("iso", 9), Created("iso", 14)} }

InitPatterns == trades = <<>> /\ args = NoArgs /\ fn = "none" /\ result = NoCall

PatternInput ==
    /\ fn = "none"
    /\ Len(trades) < MaxPatternTrades
    /\ \E t \in PatternTrades : trades' = Append(trades, t)
    /\ UNCHANGED <<args, fn, result>>

CallFingerprintPatterns ==
    /\ fn = "none"
    /\ fn' = "find_error_fingerprints"
    /\ result' = find_error_fingerprints(trades)
    /\ UNCHANGED <<trades, args>>

NextPatterns == PatternInput \/ CallFingerprintPatterns

SpecPatterns == InitPatterns /\ [][NextPatterns]_vars

\* The losing trades the emotion bucket k collects.
EmotionMembers(k) == {i \in LosingTrades : trades[i].entry_emotion = k}

\* The losing trades the period bucket k collects.
PeriodMembers(k) ==
    {i \in LosingTrades :
        HasParseableTime(trades[i]) /\ ClaimedPeriod(trades[i].created.hour) = k}

\* The number of pattern strings of one template that name the bucket k.
PatternsFor(kind, k) ==
    Cardinality({j \in 1..Len(result.patterns) :
                    result.patterns[j].kind = kind /\ result.patterns[j].bucket = k})

\* 1 for a bucket of at least two trades, else 0.
ExpectedPatterns(members) == IF Cardinality(members) >= 2 THEN 1 ELSE 0

\* C11: find_error_fingerprints emits exactly one pattern string for each
\* emotion bucket and each period bucket that holds at least two losing
\* trades, none for a bucket that holds fewer, and no other string; the
\* string names the bucket's count.  Three losing trades all tagged fomo
\* give the emotion bucket fomo the count 3 and one pattern string for it.
C11_OnePatternPerBucketOfTwo ==
    fn = "find_error_fingerprints" =>
        /\ \A k \in {"fomo", "calm", ""} :
             PatternsFor("emotion", k) = ExpectedPatterns(EmotionMembers(k))
        /\ \A k \in {"pre-10", "10-14", "14-16", "16+"} :
             PatternsFor("period", k) = ExpectedPatterns(PeriodMembers(k))
        /\ \A j \in 1..Len(result.patterns) :
             LET p == result.patterns[j]
             IN  \/ /\ p.kind = "emotion" /\ p.bucket \in {"fomo", "calm", ""}
                    /\ p.count = Cardinality(EmotionMembers(p.bucket))
                 \/ /\ p.kind = "period" /\ p.bucket \in {"pre-10", "10-14", "14-16", "16+"}
                    /\ p.count = Cardinality(PeriodMembers(p.bucket))
        /\ Cardinality(EmotionMembers("fomo")) = 3 =>
             /\ CountOf(result.by_emotion, "fomo") = 3
             /\ PatternsFor("emotion", "fomo") = 1

C11_Witness ==
    /\ fn = "find_error_fingerprints"
    /\ Len(trades) = 3
    /\ Cardinality(EmotionMembers("fomo")) = 3
    /\ \A i \in 1..3 : trades[i].created = NoCreated
    /\ trades[1].r_multiple = Num(-2) /\ trades[2].r_multiple = Num(-1)
    /\ trades[3].r_multiple = Num(-1)
    /\ result.patterns =
         <<[kind |-> "emotion", bucket |-> "fomo", count |-> 3, avg_2f |-> -133]>>

----------------------------------------------------------------------------
(* find_highlights *)

\* t["status"] == "CLOSED" and t["r_multiple"] is not None
IsClosedWithRMultiple(t) == t.status = "CLOSED" /\ ~IsNone(t.r_multiple)

calm_emotions == {"calm", "confident", "exploratory"}

\* t.get("entry_emotion") in calm_emotions and t["r_multiple"] > 0
IsHighlight(t) == t.entry_emotion \in calm_emotions /\ RLt(Num(0), t.r_multiple)

\* The list sorted by r_multiple, lowest first.
RECURSIVE sort_by_r_ascending(_)
sort_by_r_ascending(s) ==
    IF s = <<>> THEN <<>>
    ELSE LET front == sort_by_r_ascending(SubSeq(s, 1, Len(s) - 1))
             x     == s[Len(s)]
             k     == Cardinality({i \in 1..Len(front) : RLe(front[i].r_multiple, x.r_multiple)})
         IN  SubSeq(front, 1, k) \o <<x>> \o SubSeq(front, k + 1, Len(front))

\* list.sort(key=lambda x: x["r_multiple"], reverse=True): highest first,
\* equal keys keep their order.
RECURSIVE sort_by_r_descending(_)
sort_by_r_descending(s) ==
    IF s = <<>> THEN <<>>
    ELSE LET front == sort_by_r_descending(SubSeq(s, 1, Len(s) - 1))
             x     == s[Len(s)]
             k     == Cardinality({i \in 1..Len(front) : RLe(x.r_multiple, front[i].r_multiple)})
         IN  SubSeq(front, 1, k) \o <<x>> \o SubSeq(front, k + 1, Len(front))

\* highlights[:5]
FirstFive(s) == SubSeq(s, 1, IF Len(s) < 5 THEN Len(s) ELSE 5)

find_highlights(ts) ==
    LET closed     == SelectSeq(ts, IsClosedWithRMultiple)
        highlights == SelectSeq(closed, IsHighlight)
    IN  FirstFive(sort_by_r_descending(highlights))

\* Calling find_highlights on every list of up to MaxHighlightTrades records
\* whose status, r_multiple and entry_emotion vary; a list may hold more
\* than five qualifying trades.
MaxHighlightTrades == 6

HighlightTrades ==
    { [BlankTrade EXCEPT !.status = "CLOSED", !.r_multiple = Num(1), !.entry_emotion = "calm"],
      [BlankTrade EXCEPT !.status = "CLOSED", !.r_multiple = Num(2), !.entry_emotion = "exploratory"],
      [BlankTrade EXCEPT !.status = "CLOSED", !.r_multiple = Num(3), !.entry_emotion = "confident"],
      [BlankTrade EXCEPT !.status = "CLOSED", !.r_multiple = Num(3), !.entry_emotion = "fomo"],
      [BlankTrade EXCEPT !.status = "CLOSED", !.r_multiple = Num(-1), !.entry_emotion = "calm"],
      [BlankTrade EXCEPT !.status = "ACTIVE", !.r_multiple = None, !.entry_emotion = "calm"] }

InitHighlights == trades = <<>> /\ args = NoArgs /\ fn = "none" /\ result = NoCall

HighlightInput ==
    /\ fn = "none"
    /\ Len(trades) < MaxHighlightTrades
    /\ \E t \in HighlightTrades : trades' = Append(trades, t)
    /\ UNCHANGED <<args, fn, result>>

\* The returned list is kept as the field highlights of result.
CallFindHighlights ==
    /\ fn = "none"
    /\ fn' = "find_highlights"
    /\ result' = [highlights |-> find_highlights(trades)]
    /\ UNCHANGED <<trades, args>>

NextHighlights == HighlightInput \/ CallFindHighlights

SpecHighlights == InitHighlights /\ [][NextHighlights]_vars

----------------------------------------------------------------------------
(* Properties of find_highlights, checked under SpecHighlights *)

\* The positions of the input trades that qualify as a highlight.
Qualifying ==
    {i \in 1..Len(trades) :
        /\ trades[i].status = "CLOSED"
        /\ ~IsNone(trades[i].r_multiple)
        /\ RLt(Num(0), trades[i].r_multiple)
        /\ trades[i].entry_emotion \in {"calm", "confident", "exploratory"}}

\* How often the record t occurs in the returned list.
TimesReturned(t) ==
    Cardinality({j \in 1..Len(result.highlights) : result.highlights[j] = t})

\* How often the record t occurs among the qualifying input trades.
TimesQualifying(t) == Cardinality({i \in Qualifying : trades[i] = t})

\* C12: the result holds min(5, number of qualifying trades) trades, each a
\* qualifying trade of the input (returned no more often than it occurs),
\* in non-increasing order of r_multiple; a qualifying trade left out has
\* an r_multiple no greater than any returned one; the result is empty
\* when no trade qualifies.
C12_TopFiveCalmWinners ==
    fn = "find_highlights" =>
        LET h == result.highlights
        IN  /\ Len(h) <= 5
            /\ Len(h) = IF Cardinality(Qualifying) < 5 THEN Cardinality(Qualifying) ELSE 5
            /\ \A j \in 1..Len(h) :
                 /\ \E i \in Qualifying : trades[i] = h[j]
                 /\ TimesReturned(h[j]) <= TimesQualifying(h[j])
            /\ \A j \in 1..(Len(h) - 1) : RLe(h[j + 1].r_multiple, h[j].r_multiple)
            /\ \A i \in Qualifying :
                 TimesReturned(trades[i]) < TimesQualifying(trades[i]) =>
                    \A j \in 1..Len(h) : RLe(trades[i].r_multiple, h[j].r_multiple)
            /\ (Qualifying = {}) => h = <<>>

C12_Witness ==
    /\ fn = "find_highlights"
    /\ Cardinality(Qualifying) = 6
    /\ trades[1].r_multiple = Num(1) /\ trades[2].r_multiple = Num(3)
    /\ trades[3].r_multiple = Num(1) /\ trades[4].r_multiple = Num(2)
    /\ Len(result.highlights) = 5
    /\ result.highlights[1].r_multiple = Num(3)
    /\ result.highlights[5].r_multiple = Num(1)
    /\ TimesReturned(trades[1]) = 1 /\ TimesQualifying(trades[1]) = 2

----------------------------------------------------------------------------
(* deep_analysis.  An insight string is the record of what is printed in   *)
(* it: which template (kind), the ticker, and the familiarity or the       *)
(* deviation as formatted.                                                 *)

\* f"{x:.1%}": the number of tenths of a percent nearest to x, a tie going
\* to the even one.
format_1pct(x) ==
    LET a == Abs(x.n) * 1000
        q == a \div x.d
        r == a % x.d
        m == IF 2 * r > x.d \/ (2 * r = x.d /\ q % 2 = 1) THEN q + 1 ELSE q
    IN  IF x.n < 0 THEN -m ELSE m

\* Low familiarity taken as below 3.
IsLowFamiliarity_below_3(familiarity) == Truthy(familiarity) /\ RLt(familiarity, Num(3))

\* familiarity and familiarity <= 3
IsLowFamiliarity(familiarity) == Truthy(familiarity) /\ RLe(familiarity, Num(3))

\* familiarity and familiarity >= 7
IsHighFamiliarity(familiarity) == Truthy(familiarity) /\ RLe(Num(7), familiarity)

\* The body of the loop over the closed trades: what one trade appends.
InsightsOf(t) ==
    LET r           == t.r_multiple
        familiarity == t.familiarity
        deviation   == OrZero(t.deviation_pct)
    IN  (IF RLt(Num(0), r) /\ IsLowFamiliarity(familiarity)
         THEN <<[kind |-> "profit_low_familiarity", ticker |-> t.ticker,
                 shown |-> familiarity.n]>>
         ELSE IF RLt(r, Num(0)) /\ IsHighFamiliarity(familiarity)
         THEN <<[kind |-> "loss_high_familiarity", ticker |-> t.ticker,
                 shown |-> familiarity.n]>>
         ELSE <<>>)
        \o (IF RLt(Rat(5, 100), deviation)
            THEN <<[kind |-> "execution_deviation", ticker |-> t.ticker,
                    shown |-> format_1pct(deviation)]>>
            ELSE <<>>)

RECURSIVE InsightsOfAll(_)
InsightsOfAll(closed) ==
    IF closed = <<>> THEN <<>>
    ELSE InsightsOfAll(SubSeq(closed, 1, Len(closed) - 1)) \o InsightsOf(closed[Len(closed)])

deep_analysis(ts) ==
    LET closed == SelectSeq(ts, IsClosedWithRMultiple)
    IN  IF closed = <<>>
        THEN [market_vs_thesis |-> <<>>, execution_gaps |-> <<>>]
        ELSE [insights |-> InsightsOfAll(closed)]

\* Calling deep_analysis on every short list of records whose ticker,
\* status, r_multiple, familiarity (1 to 10 or not set) and deviation_pct
\* vary.
MaxDeepTrades == 2

DeepTrades ==
    { [BlankTrade EXCEPT !.status = "ACTIVE", !.r_multiple = Num(1),
                         !.familiarity = Num(3), !.deviation_pct = Rat(1, 10)],
      [BlankTrade EXCEPT !.status = "CLOSED", !.r_multiple = None,
                         !.familiarity = Num(3), !.deviation_pct = Rat(1, 10)],
      [BlankTrade EXCEPT !.status = "CLOSED", !.r_multiple = Num(0),
                         !.familiarity = Num(3), !.deviation_pct = Rat(1, 10)] }
    \cup { [BlankTrade EXCEPT !.status = "CLOSED", !.ticker = tk, !.r_multiple = r,
                              !.familiarity = f, !.deviation_pct = dv] :
             tk \in {"AAPL", "MSFT"},
             r  \in {Num(-1), Num(1)},
             f  \in {None, Num(3), Num(4), Num(6), Num(7)},
             dv \in {None, Rat(5, 100), Rat(1, 10)} }

InitDeep == trades = <<>> /\ args = NoArgs /\ fn = "none" /\ result = NoCall

DeepInput ==
    /\ fn = "none"
    /\ Len(trades) < MaxDeepTrades
    /\ \E t \in DeepTrades : trades' = Append(trades, t)
    /\ UNCHANGED <<args, fn, result>>

CallDeepAnalysis ==
    /\ fn = "none"
    /\ fn' = "deep_analysis"
    /\ result' = deep_analysis(trades)
    /\ UNCHANGED <<trades, args>>

NextDeep == DeepInput \/ CallDeepAnalysis

SpecDeep == InitDeep /\ [][NextDeep]_vars

----------------------------------------------------------------------------
(* Properties of deep_analysis, checked under SpecDeep *)

\* The insights the three rules give one trade, each rule evaluated on its
\* own; a familiarity that is not set satisfies neither familiarity rule.
ClaimedInsights(t) ==
    (IF RLt(Num(0), t.r_multiple) /\ ~IsNone(t.familiarity) /\ RLe(t.familiarity, Num(3))
     THEN <<[kind |-> "profit_low_familiarity", ticker |-> t.ticker,
             shown |-> t.familiarity.n]>>
     ELSE <<>>)
    \o (IF RLt(t.r_multiple, Num(0)) /\ ~IsNone(t.familiarity) /\ RLe(Num(7), t.familiarity)
        THEN <<[kind |-> "loss_high_familiarity", ticker |-> t.ticker,
                shown |-> t.familiarity.n]>>
        ELSE <<>>)
    \o (IF ~IsNone(t.deviation_pct) /\ RLt(Rat(1, 20), t.deviation_pct)
        THEN <<[kind |-> "execution_deviation", ticker |-> t.ticker,
                shown |-> (t.deviation_pct.n * 1000) \div t.deviation_pct.d]>>
        ELSE <<>>)

RECURSIVE ClaimedInsightsUpTo(_)
ClaimedInsightsUpTo(k) ==
    IF k = 0 THEN <<>>
    ELSE ClaimedInsightsUpTo(k - 1)
         \o (IF trades[k].status = "CLOSED" /\ ~IsNone(trades[k].r_multiple)
             THEN ClaimedInsights(trades[k]) ELSE <<>>)

\* The insights of a result (none when the result has no insights list).
InsightsIn(res) == IF "insights" \in DOMAIN res THEN res.insights ELSE <<>>

\* C13: the insights are, trade by trade in input order over the closed
\* trades with an r_multiple, the low-familiarity-profit insight iff
\* r_multiple > 0 and familiarity <= 3, the high-familiarity-loss insight
\* iff r_multiple < 0 and familiarity >= 7, the execution-deviation insight
\* iff deviation_pct > 0.05, each rule on its own; a trade gives at most
\* two insights and one whose familiarity is not set gives no familiarity
\* insight.
C13_ThreeIndependentRules ==
    fn = "deep_analysis" =>
        /\ InsightsIn(result) = ClaimedInsightsUpTo(Len(trades))
        /\ \A i \in 1..Len(trades) : Len(ClaimedInsights(trades[i])) <= 2
        /\ (\A i \in 1..Len(trades) : IsNone(trades[i].familiarity)) =>
              \A j \in 1..Len(InsightsIn(result)) :
                 InsightsIn(result)[j].kind = "execution_deviation"

C13_Witness ==
    /\ fn = "deep_analysis"
    /\ Len(trades) = 2
    /\ trades[1].ticker = "AAPL" /\ trades[1].status = "CLOSED"
    /\ trades[1].r_multiple = Num(1) /\ trades[1].familiarity = Num(3)
    /\ trades[1].deviation_pct = Rat(1, 10)
    /\ trades[2].ticker = "MSFT" /\ trades[2].r_multiple = Num(-1)
    /\ IsNone(trades[2].familiarity) /\ trades[2].deviation_pct = Rat(1, 20)
    /\ result.insights =
         <<[kind |-> "profit_low_familiarity", ticker |-> "AAPL", shown |-> 3],
           [kind |-> "execution_deviation", ticker |-> "AAPL", shown |-> 100]>>

----------------------------------------------------------------------------
(* calc_position_analysis *)

\* t["status"] in ("PLANNED", "ACTIVE")
IsOpenPosition(t) == t.status \in {"PLANNED", "ACTIVE"}

\* The entry of a ticker keeps the status and direction it was created with.
PositionEntryAdd_first_write(d, t) ==
    IF \E i \in 1..Len(d) : d[i].ticker = t.ticker
    THEN [i \in 1..Len(d) |->
            IF d[i].ticker = t.ticker
            THEN [d[i] EXCEPT !.position_pct = RAdd(@, t.position_pct)]
            ELSE d[i]]
    ELSE Append(d, [ticker |-> t.ticker, position_pct |-> RAdd(Num(0), t.position_pct),
                    status |-> t.status, direction |-> t.direction])

\* entry = by_ticker_pos[t["ticker"]]; entry["position_pct"] += ...;
\* entry["status"] = ...; entry["direction"] = ...
PositionEntryAdd(d, t) ==
    IF \E i \in 1..Len(d) : d[i].ticker = t.ticker
    THEN [i \in 1..Len(d) |->
            IF d[i].ticker = t.ticker
            THEN [d[i] EXCEPT !.position_pct = RAdd(@, t.position_pct),
                              !.status = t.status, !.direction = t.direction]
            ELSE d[i]]
    ELSE Append(d, [ticker |-> t.ticker, position_pct |-> RAdd(Num(0), t.position_pct),
                    status |-> t.status, direction |-> t.direction])

RECURSIVE by_ticker_pos(_)
by_ticker_pos(active_trades) ==
    IF active_trades = <<>> THEN <<>>
    ELSE PositionEntryAdd(by_ticker_pos(SubSeq(active_trades, 1, Len(active_trades) - 1)),
                          active_trades[Len(active_trades)])

\* position_dist.sort(key=lambda x: x["position_pct"], reverse=True)
RECURSIVE sort_by_position_descending(_)
sort_by_position_descending(s) ==
    IF s = <<>> THEN <<>>
    ELSE LET front == sort_by_position_descending(SubSeq(s, 1, Len(s) - 1))
             x     == s[Len(s)]
             k     == Cardinality({i \in 1..Len(front) :
                                      RLe(x.position_pct, front[i].position_pct)})
         IN  SubSeq(front, 1, k) \o <<x>> \o SubSeq(front, k + 1, Len(front))

RECURSIVE group_by_ticker(_)
group_by_ticker(closed) ==
    IF closed = <<>> THEN <<>>
    ELSE LET t == closed[Len(closed)]
         IN  DictAppend(group_by_ticker(SubSeq(closed, 1, Len(closed) - 1)), t.ticker, t)

IsWinner(t) == RLt(Num(0), t.r_multiple)

\* ticker_stats[ticker] = {...}
TickerStats(e) ==
    LET ticker_trades == e.values
        wins    == SelectSeq(ticker_trades, IsWinner)
        r_vals  == [i \in 1..Len(ticker_trades) |-> ticker_trades[i].r_multiple]
        returns == [i \in 1..Len(ticker_trades) |-> OrZero(ticker_trades[i].actual_return_pct)]
    IN  [key          |-> e.key,
         trades       |-> Len(ticker_trades),
         wins         |-> Len(wins),
         win_rate     |-> Rat(Len(wins), Len(ticker_trades)),
         avg_r        |-> RDiv(RSum(r_vals), Num(Len(r_vals))),
         total_r      |-> RSum(r_vals),
         avg_return   |-> RDiv(RSum(returns), Num(Len(returns))),
         total_return |-> RSum(returns)]

\* total_weighted_return += ret * (pos / 100)
WeightedReturn(t) ==
    RMul(OrZero(t.actual_return_pct), RDiv(OrZero(t.position_pct), Num(100)))

calc_position_analysis(ts) ==
    LET active_trades   == SelectSeq(ts, IsOpenPosition)
        position_dist   == sort_by_position_descending(by_ticker_pos(active_trades))
        total_position  == RSum([i \in 1..Len(position_dist) |-> position_dist[i].position_pct])
        closed          == SelectSeq(ts, IsClosedWithRMultiple)
        by_ticker       == group_by_ticker(closed)
    IN  [position_dist     |-> position_dist,
         total_position    |-> total_position,
         max_concentration |->
             IF position_dist # <<>> /\ RLt(Num(0), total_position)
             THEN RMul(RDiv(position_dist[1].position_pct, total_position), Num(100))
             ELSE Num(0),
         ticker_stats      |-> [i \in 1..Len(by_ticker) |-> TickerStats(by_ticker[i])],
         total_weighted_return |->
             RSum([i \in 1..Len(closed) |-> WeightedReturn(closed[i])])]

\* Calling calc_position_analysis on every short list of records whose
\* ticker, status, direction and position_pct (never negative) vary; a
\* CLOSED record has each of actual_exit, r_multiple and actual_return_pct
\* set or empty.
MaxPositionTrades == 3

PositionTrades ==
    { [BlankTrade EXCEPT !.status = "CLOSED", !.position_pct = Num(10),
                         !.r_multiple = Num(1), !.actual_return_pct = Rat(1, 10),
                         !.actual_exit = Num(110)],
      [BlankTrade EXCEPT !.status = "CLOSED", !.position_pct = Num(30)],
      [BlankTrade EXCEPT !.status = "CLOSED", !.position_pct = Num(30),
                         !.r_multiple = Num(-1), !.actual_exit = Num(90)],
      [BlankTrade EXCEPT !.status = "CLOSED", !.position_pct = Num(10),
                         !.actual_return_pct = Rat(1, 10), !.actual_exit = Num(110)],
      [BlankTrade EXCEPT !.status = "CLOSED", !.position_pct = Num(10),
                         !.r_multiple = Num(1), !.actual_return_pct = Rat(1, 10)] }
    \cup { [BlankTrade EXCEPT !.ticker = tk, !.status = sd[1], !.direction = sd[2],
                              !.position_pct = p] :
             tk \in {"AAPL", "MSFT"},
             sd \in {<<"PLANNED", "LONG">>, <<"ACTIVE", "LONG">>, <<"ACTIVE", "SHORT">>},
             p  \in {Num(0), Num(10), Num(30)} }

InitPositions == trades = <<>> /\ args = NoArgs /\ fn = "none" /\ result = NoCall

PositionInput ==
    /\ fn = "none"
    /\ Len(trades) < MaxPositionTrades
    /\ \E t \in PositionTrades : trades' = Append(trades, t)
    /\ UNCHANGED <<args, fn, result>>

CallCalcPositionAnalysis ==
    /\ fn = "none"
    /\ fn' = "calc_position_analysis"
    /\ result' = calc_position_analysis(trades)
    /\ UNCHANGED <<trades, args>>

NextPositions == PositionInput \/ CallCalcPositionAnalysis

SpecPositions == InitPositions /\ [][NextPositions]_vars

----------------------------------------------------------------------------
(* Properties of calc_position_analysis, checked under SpecPositions *)

\* The positions in the input of the PLANNED or ACTIVE trades of a ticker.
OpenTradesOf(ticker) ==
    {i \in 1..Len(trades) :
        trades[i].ticker = ticker /\ trades[i].status \in {"PLANNED", "ACTIVE"}}

OpenTickers ==
    {trades[i].ticker : i \in {j \in 1..Len(trades) : trades[j].status \in {"PLANNED", "ACTIVE"}}}

\* The sum of position_pct over the trades at the positions S.
RECURSIVE SumPositionOver(_)
SumPositionOver(S) ==
    IF S = {} THEN Num(0)
    ELSE LET i == CHOOSE j \in S : TRUE
         IN  RAdd(trades[i].position_pct, SumPositionOver(S \ {i}))

LastOf(S) == CHOOSE i \in S : \A j \in S : j <= i

\* C14: position_dist has exactly one entry per ticker of the PLANNED or
\* ACTIVE trades, with the sum of that ticker's position_pct and the status
\* and direction of its last such trade; the entries are in non-increasing
\* order of position_pct; total_position is their sum; max_concentration
\* is the largest entry / total * 100, 0 when the total is 0, and lies in
\* [0, 100].
C14_PositionDistribution ==
    fn = "calc_position_analysis" =>
        LET dist  == result.position_dist
            total == result.total_position
        IN  /\ Len(dist) = Cardinality(OpenTickers)
            /\ \A k \in OpenTickers :
                 \E j \in 1..Len(dist) :
                    /\ dist[j].ticker = k
                    /\ dist[j].position_pct = SumPositionOver(OpenTradesOf(k))
                    /\ dist[j].status = trades[LastOf(OpenTradesOf(k))].status
                    /\ dist[j].direction = trades[LastOf(OpenTradesOf(k))].direction
            /\ \A j \in 1..(Len(dist) - 1) : RLe(dist[j + 1].position_pct, dist[j].position_pct)
            /\ total = SumPositionOver(UNION {OpenTradesOf(k) : k \in OpenTickers})
            /\ IF total = Num(0)
               THEN result.max_concentration = Num(0)
               ELSE \E j \in 1..Len(dist) :
                       /\ \A i \in 1..Len(dist) : RLe(dist[i].position_pct, dist[j].position_pct)
                       /\ result.max_concentration =
                            RMul(RDiv(dist[j].position_pct, total), Num(100))
            /\ RLe(Num(0), result.max_concentration)
            /\ RLe(result.max_concentration, Num(100))

C14_Witness ==
    /\ fn = "calc_position_analysis"
    /\ Len(trades) = 3
    /\ trades[1].ticker = "AAPL" /\ trades[1].status = "PLANNED"
    /\ trades[1].direction = "LONG" /\ trades[1].position_pct = Num(10)
    /\ trades[2].ticker = "MSFT" /\ trades[2].position_pct = Num(30)
    /\ trades[2].status = "ACTIVE" /\ trades[2].direction = "LONG"
    /\ trades[3].ticker = "AAPL" /\ trades[3].status = "ACTIVE"
    /\ trades[3].direction = "SHORT" /\ trades[3].position_pct = Num(10)
    /\ result.position_dist =
         <<[ticker |-> "MSFT", position_pct |-> Num(30), status |-> "ACTIVE",
            direction |-> "LONG"],
           [ticker |-> "AAPL", position_pct |-> Num(20), status |-> "ACTIVE",
            direction |-> "SHORT"]>>
    /\ result.total_position = Num(50)
    /\ result.max_concentration = Num(60)

----------------------------------------------------------------------------
(* generate_suggestions.  A message is the record of its template (msg)    *)
(* and, for the per-period message, the period printed in it.              *)

Message(msg) == [msg |-> msg, period |-> ""]

\* generate_suggestions called without its third argument (risk_profile=None)
NoRiskProfile == [absent |-> TRUE]

\* key in stats and stats[key]["count"] >= n
CountAtLeast(stats, key, n) ==
    \E i \in 1..Len(stats) : stats[i].key = key /\ stats[i].count >= n

\* for period, stats in period_stats.items(): if stats["count"] >= 2
PeriodSuggestions(period_stats) ==
    LET hits == SelectSeq(period_stats, IsPattern)
    IN  [i \in 1..Len(hits) |-> [msg |-> "fewer trades in period", period |-> hits[i].key]]

\* The aggressive rule taken as score > 75.
IsAggressive_above_75(score) == RLt(Num(75), score)

\* score >= 75
IsAggressive(score) == RLe(Num(75), score)

generate_suggestions(fingerprints, discipline, risk_profile) ==
    LET emotion_stats == fingerprints.by_emotion
        rules ==
            (IF CountAtLeast(emotion_stats, "fomo", 2)
             THEN <<Message("halve position cap under fomo")>> ELSE <<>>)
            \o (IF CountAtLeast(emotion_stats, "fatigued", 1)
                THEN <<Message("no entries when fatigued")>> ELSE <<>>)
            \o (IF CountAtLeast(emotion_stats, "fearful", 2)
                THEN <<Message("pause and re-assess when fearful")>> ELSE <<>>)
            \o PeriodSuggestions(fingerprints.by_period)
            \o (IF RLt(discipline.score, Num(80))
                THEN <<Message("discipline score low")>> ELSE <<>>)
            \o (IF risk_profile = NoRiskProfile THEN <<>>
                ELSE IF IsAggressive(risk_profile.score)
                THEN <<Message("reduce position size or raise win-rate threshold")>>
                ELSE IF RLe(risk_profile.score, Num(25))
                THEN <<Message("raise risk-reward requirement")>>
                ELSE <<>>)
    IN  IF rules = <<>> THEN <<Message("stable, keep current discipline")>> ELSE rules

\* Calling generate_suggestions on results of find_error_fingerprints,
\* calc_discipline_score and calc_risk_profile: the losing trades are up to
\* MaxBucketCount per emotion, each emotion's trades created in one period
\* or without a creation time.
MaxBucketCount == 2

Loser(emotion, created) ==
    [BlankTrade EXCEPT !.status = "CLOSED", !.r_multiple = Num(-1),
                       !.entry_emotion = emotion, !.created = created]

LoserLists ==
    { [i \in 1..a |-> Loser("fomo", ca)]
      \o [i \in 1..b |-> Loser("fatigued", cb)]
      \o [i \in 1..c |-> Loser("fearful", cc)] :
        a \in 0..MaxBucketCount, b \in 0..1, c \in 0..MaxBucketCount,
        ca \in {Created("iso", 9)},
        cb \in {NoCreated, Created("iso", 9), Created("iso", 14)},
        cc \in {NoCreated, Created("iso", 14)} }

\* One closed trade whose deviation gives the discipline score 100, 80 or 79.
DisciplineLists ==
    { <<[BlankTrade EXCEPT !.status = "CLOSED", !.profit_target = Num(120),
                           !.actual_exit = Num(110), !.deviation_pct = dv]>> :
        dv \in {Num(0), Rat(20, 100), Rat(21, 100)} }

\* One trade whose position_pct gives the risk score 1.25, 25, 38.75, 75 or
\* 76.25.
RiskLists ==
    { <<[BlankTrade EXCEPT !.position_pct = p]>> :
        p \in {Num(1), Rat(163, 30), Num(8), Rat(443, 30), Num(20)} }

SuggestionArgs ==
    { [fingerprints |-> find_error_fingerprints(ls),
       discipline   |-> calc_discipline_score(ds),
       risk_profile |-> rp] :
        ls \in LoserLists, ds \in DisciplineLists,
        rp \in {NoRiskProfile} \cup {calc_risk_profile(rs) : rs \in RiskLists} }

InitSuggestions ==
    trades = <<>> /\ args \in SuggestionArgs /\ fn = "none" /\ result = NoCall

\* The returned list is kept as the field suggestions of result.
CallGenerateSuggestions ==
    /\ fn = "none"
    /\ fn' = "generate_suggestions"
    /\ result' = [suggestions |->
                    generate_suggestions(args.fingerprints, args.discipline,
                                         args.risk_profile)]
    /\ UNCHANGED <<trades, args>>

NextSuggestions == CallGenerateSuggestions

SpecSuggestions == InitSuggestions /\ [][NextSuggestions]_vars

----------------------------------------------------------------------------
(* Properties of generate_suggestions, checked under SpecSuggestions *)

StableMessage == [msg |-> "stable, keep current discipline", period |-> ""]

\* The rule messages whose conditions hold for the arguments, in the order
\* of the rules; without a risk profile there is no risk score.
ClaimedRuleMessages ==
    LET emotions  == args.fingerprints.by_emotion
        periods   == args.fingerprints.by_period
        IsBig(e)  == e.count >= 2
        big       == SelectSeq(periods, IsBig)
        has_risk  == "score" \in DOMAIN args.risk_profile
    IN  (IF CountOf(emotions, "fomo") >= 2
         THEN <<[msg |-> "halve position cap under fomo", period |-> ""]>> ELSE <<>>)
        \o (IF CountOf(emotions, "fatigued") >= 1
            THEN <<[msg |-> "no entries when fatigued", period |-> ""]>> ELSE <<>>)
        \o (IF CountOf(emotions, "fearful") >= 2
            THEN <<[msg |-> "pause and re-assess when fearful", period |-> ""]>> ELSE <<>>)
        \o [i \in 1..Len(big) |-> [msg |-> "fewer trades in period", period |-> big[i].key]]
        \o (IF RLt(args.discipline.score, Num(80))
            THEN <<[msg |-> "discipline score low", period |-> ""]>> ELSE <<>>)
        \o (IF has_risk /\ RLe(Num(75), args.risk_profile.score)
            THEN <<[msg |-> "reduce position size or raise win-rate threshold",
                    period |-> ""]>>
            ELSE <<>>)
        \o (IF has_risk /\ RLe(args.risk_profile.score, Num(25))
            THEN <<[msg |-> "raise risk-reward requirement", period |-> ""]>> ELSE <<>>)

\* C15: the result is the messages of the rules whose conditions hold, in
\* the order of the rules, and the single stable message iff no rule
\* fired; it is never empty and never holds the stable message next to a
\* rule message.
C15_RulesInOrderOrStable ==
    fn = "generate_suggestions" =>
        LET s == result.suggestions
        IN  /\ s = IF ClaimedRuleMessages = <<>> THEN <<StableMessage>>
                   ELSE ClaimedRuleMessages
            /\ s # <<>>
            /\ (\E j \in 1..Len(s) : s[j] = StableMessage) <=> ClaimedRuleMessages = <<>>
            /\ (\E j \in 1..Len(s) : s[j] = StableMessage) => Len(s) = 1

C15_Witness ==
    /\ fn = "generate_suggestions"
    /\ CountOf(args.fingerprints.by_emotion, "fomo") = 2
    /\ CountOf(args.fingerprints.by_emotion, "fatigued") = 1
    /\ CountOf(args.fingerprints.by_emotion, "fearful") = 2
    /\ args.discipline.score = Num(79)
    /\ args.risk_profile # NoRiskProfile
    /\ args.risk_profile.score = Num(75)
    /\ result.suggestions =
         <<[msg |-> "halve position cap under fomo", period |-> ""],
           [msg |-> "no entries when fatigued", period |-> ""],
           [msg |-> "pause and re-assess when fearful", period |-> ""],
           [msg |-> "fewer trades in period", period |-> "pre-10"],
           [msg |-> "fewer trades in period", period |-> "14-16"],
           [msg |-> "discipline score low", period |-> ""],
           [msg |-> "reduce position size or raise win-rate threshold", period |-> ""]>>

----------------------------------------------------------------------------
(* The two report-generation paths: generate_monthly_review (the CLI's     *)
(* review command) and the review page of the web form.  trades is the     *)
(* snapshot fetch_all_trades returned; result is the review dict that is   *)
(* rendered into the report.                                               *)

MaxReviewTrades == 2

ReviewTrades ==
    { [BlankTrade EXCEPT !.position_pct = Num(20)],
      [BlankTrade EXCEPT !.position_pct = Num(1)],
      [BlankTrade EXCEPT !.status = "ACTIVE", !.position_pct = Num(8),
                         !.risk_reward = Num(2), !.win_rate = Rat(3, 5)],
      [BlankTrade EXCEPT !.status = "CLOSED", !.position_pct = Num(20),
                         !.entry_emotion = "fomo", !.profit_target = Num(120),
                         !.actual_exit = Num(90), !.r_multiple = Num(-1),
                         !.actual_return_pct = Rat(-1, 10), !.deviation_pct = Rat(1, 4),
                         !.created = Created("iso", 9)],
      [BlankTrade EXCEPT !.status = "CLOSED", !.position_pct = Num(1),
                         !.entry_emotion = "fatigued", !.actual_exit = Num(95),
                         !.r_multiple = Num(-1), !.actual_return_pct = Rat(-1, 20),
                         !.created = Created("iso", 14)],
      [BlankTrade EXCEPT !.status = "CLOSED", !.position_pct = Num(5),
                         !.entry_emotion = "calm", !.profit_target = Num(120),
                         !.actual_exit = Num(120), !.r_multiple = Num(2),
                         !.actual_return_pct = Rat(1, 5), !.deviation_pct = Num(0),
                         !.familiarity = Num(8), !.created = Created("iso", 10)] }

InitReview == trades = <<>> /\ args = NoArgs /\ fn = "none" /\ result = NoCall

ReviewInput ==
    /\ fn = "none"
    /\ Len(trades) < MaxReviewTrades
    /\ \E t \in ReviewTrades : trades' = Append(trades, t)
    /\ UNCHANGED <<args, fn, result>>

\* The CLI path.  generate_suggestions is called with two arguments.
generate_monthly_review ==
    /\ fn = "none"
    /\ fn' = "generate_monthly_review"
    /\ result' =
         IF trades = <<>>
         THEN [trades |-> <<>>, statistics |-> [total |-> 0]]
         ELSE LET stats        == calc_statistics(trades)
                  highlights   == find_highlights(trades)
                  fingerprints == find_error_fingerprints(trades)
                  discipline   == calc_discipline_score(trades)
                  deep         == deep_analysis(trades)
                  suggestions  == generate_suggestions(fingerprints, discipline,
                                                       NoRiskProfile)
              IN  [trades        |-> trades,
                   statistics    |-> stats,
                   highlights    |-> highlights,
                   fingerprints  |-> fingerprints,
                   discipline    |-> discipline,
                   deep_analysis |-> deep,
                   suggestions   |-> suggestions]
    /\ UNCHANGED <<trades, args>>

\* The web path.  Without trades the page shows a warning and no report.
review_page ==
    /\ fn = "none"
    /\ fn' = "review_page"
    /\ result' =
         IF trades = <<>>
         THEN [warning |-> "no trades"]
         ELSE LET stats             == calc_statistics(trades)
                  highlights        == find_highlights(trades)
                  fingerprints      == find_error_fingerprints(trades)
                  discipline        == calc_discipline_score(trades)
                  deep              == deep_analysis(trades)
                  position_analysis == calc_position_analysis(trades)
                  risk_profile      == calc_risk_profile(trades)
                  suggestions       == generate_suggestions(fingerprints, discipline,
                                                            risk_profile)
              IN  [trades            |-> trades,
                   statistics        |-> stats,
                   highlights        |-> highlights,
                   fingerprints      |-> fingerprints,
                   discipline        |-> discipline,
                   deep_analysis     |-> deep,
                   suggestions       |-> suggestions,
                   position_analysis |-> position_analysis,
                   risk_profile      |-> risk_profile]
    /\ UNCHANGED <<trades, args>>

NextReview == ReviewInput \/ generate_monthly_review \/ review_page

SpecReview == InitReview /\ [][NextReview]_vars

----------------------------------------------------------------------------
(* Properties of the report paths, checked under SpecReview *)

AggressiveMessage ==
    [msg |-> "reduce position size or raise win-rate threshold", period |-> ""]

\* A report has been generated from a non-empty snapshot.
ReportGenerated == fn \in {"generate_monthly_review", "review_page"} /\ trades # <<>>

\* C16 (as claimed): in a report of either path the suggestions are those
\* generate_suggestions gives for the fingerprints, the discipline score
\* and the risk profile of the report's own snapshot, so a snapshot whose
\* risk-profile score is at least 75 has the reduce-position-size
\* suggestion in its report.
C16_SuggestionsFromAllThreeResults ==
    ReportGenerated =>
        /\ result.suggestions =
             generate_suggestions(find_error_fingerprints(trades),
                                  calc_discipline_score(trades),
                                  calc_risk_profile(trades))
        /\ RLe(Num(75), calc_risk_profile(trades).score) =>
             \E j \in 1..Len(result.suggestions) : result.suggestions[j] = AggressiveMessage

----------------------------------------------------------------------------
(* Calling each analytics function on records whose optional numbers are   *)
(* None.  Arithmetic or an ordering comparison with None as an operand     *)
(* raises TypeError in Python; TypeErrorRaised(f, ts) says whether the     *)
(* call f(ts) reaches such an operation.  The functions take any           *)
(* list[dict]; the record parser never leaves position_pct None (it reads  *)
(* a missing Position % as 0), every other number it can.                  *)

AnalyticsFunctions ==
    {"calc_statistics", "find_highlights", "find_error_fingerprints",
     "calc_discipline_score", "deep_analysis", "calc_position_analysis",
     "calc_risk_profile"}

IsCalm(t) == t.entry_emotion \in calm_emotions

SomeNone(s) == \E i \in 1..Len(s) : IsNone(s[i])

TypeErrorRaised(f, ts) ==
    CASE f = "calc_statistics" ->
            \* r > 0 and the Series arithmetic, on (t["r_multiple"] or 0)
            LET closed == SelectSeq(ts, IsClosedWithExit)
            IN  SomeNone([i \in 1..Len(closed) |-> RValue(closed[i])])
      [] f = "find_highlights" ->
            \* t["r_multiple"] > 0, reached when the emotion test passes
            LET closed == SelectSeq(SelectSeq(ts, IsClosedWithRMultiple), IsCalm)
            IN  SomeNone([i \in 1..Len(closed) |-> closed[i].r_multiple])
      [] f = "find_error_fingerprints" ->
            \* (t["r_multiple"] or 0) < 0, then sum(v) over the losers' r_multiple
            LET losers == SelectSeq(ts, IsLoser)
            IN  \/ SomeNone([i \in 1..Len(ts) |-> OrZero(ts[i].r_multiple)])
                \/ SomeNone([i \in 1..Len(losers) |-> losers[i].r_multiple])
      [] f = "calc_discipline_score" ->
            \* abs(t["deviation_pct"] or 0)
            LET closed == SelectSeq(ts, IsDisciplineSample)
            IN  SomeNone([i \in 1..Len(closed) |-> OrZero(closed[i].deviation_pct)])
      [] f = "deep_analysis" ->
            \* r > 0, r < 0; familiarity <= 3 and >= 7 behind `familiarity and`;
            \* deviation > 0.05 on (deviation_pct or 0)
            LET closed == SelectSeq(ts, IsClosedWithRMultiple)
            IN  \/ SomeNone([i \in 1..Len(closed) |-> closed[i].r_multiple])
                \/ \E i \in 1..Len(closed) :
                      Truthy(closed[i].familiarity) /\ IsNone(closed[i].familiarity)
                \/ SomeNone([i \in 1..Len(closed) |-> OrZero(closed[i].deviation_pct)])
      [] f = "calc_position_analysis" ->
            \* entry["position_pct"] += t["position_pct"]; the per-ticker and
            \* weighted sums on r_multiple, (actual_return_pct or 0), (position_pct or 0)
            LET active_trades == SelectSeq(ts, IsOpenPosition)
                closed        == SelectSeq(ts, IsClosedWithRMultiple)
            IN  \/ SomeNone([i \in 1..Len(active_trades) |-> active_trades[i].position_pct])
                \/ SomeNone([i \in 1..Len(closed) |-> closed[i].r_multiple])
                \/ SomeNone([i \in 1..Len(closed) |-> OrZero(closed[i].actual_return_pct)])
                \/ SomeNone([i \in 1..Len(closed) |-> OrZero(closed[i].position_pct)])
      [] f = "calc_risk_profile" ->
            \* sum(t["position_pct"] for t in trades), max(...), after `if not trades`;
            \* risk_reward and win_rate are used only when truthy
            /\ ts # <<>>
            /\ SomeNone([i \in 1..Len(ts) |-> ts[i].position_pct])

\* What the call f(ts) returns when it raises nothing (a returned list is
\* kept as the field items).
Returned(f, ts) ==
    CASE f = "calc_statistics"         -> calc_statistics(ts)
      [] f = "find_highlights"         -> [items |-> find_highlights(ts)]
      [] f = "find_error_fingerprints" -> find_error_fingerprints(ts)
      [] f = "calc_discipline_score"   -> calc_discipline_score(ts)
      [] f = "deep_analysis"           -> deep_analysis(ts)
      [] f = "calc_position_analysis"  -> calc_position_analysis(ts)
      [] f = "calc_risk_profile"       -> calc_risk_profile(ts)

MaxTotalityTrades == 2

\* A trade with every optional number set.
FullTrade(status, r) ==
    [BlankTrade EXCEPT !.status = status, !.entry_emotion = "calm",
                       !.position_pct = Num(10), !.profit_target = Num(120),
                       !.risk_reward = Num(2), !.win_rate = Rat(3, 5),
                       !.familiarity = Num(3), !.actual_exit = Num(110),
                       !.actual_return_pct = Rat(1, 10), !.r_multiple = r,
                       !.deviation_pct = Rat(1, 12)]

OptionalNumbers ==
    {"position_pct", "r_multiple", "risk_reward", "win_rate", "familiarity",
     "deviation_pct", "actual_return_pct", "actual_exit", "profit_target"}

\* The trade t with the fields named in S set to None.
Without(t, S) == [k \in DOMAIN t |-> IF k \in S THEN None ELSE t[k]]

TotalityTrades ==
    { Without(t, S) :
        t \in {FullTrade("PLANNED", Num(1)), FullTrade("CLOSED", Num(1)),
               FullTrade("CLOSED", Num(-1))},
        S \in {{}, OptionalNumbers} \cup {{k} : k \in OptionalNumbers} }

InitTotality == trades = <<>> /\ args = NoArgs /\ fn = "none" /\ result = NoCall

TotalityInput ==
    /\ fn = "none"
    /\ Len(trades) < MaxTotalityTrades
    /\ \E t \in TotalityTrades : trades' = Append(trades, t)
    /\ UNCHANGED <<args, fn, result>>

CallAnalytics ==
    /\ fn = "none"
    /\ \E f \in AnalyticsFunctions :
          /\ fn' = f
          /\ result' = IF TypeErrorRaised(f, trades)
                       THEN [raised |-> "TypeError"]
                       ELSE Returned(f, trades)
    /\ UNCHANGED <<trades, args>>

NextTotality == TotalityInput \/ CallAnalytics

SpecTotality == InitTotality /\ [][NextTotality]_vars

----------------------------------------------------------------------------
(* The record store and the operations on it: sync_trade_plan,             *)
(* update_trade_status, close_trade, add_psych_note (notion_bridge.py), as *)
(* driven by the CLI's log commands (main.py) and by the plan form and the *)
(* position-management page (input_logic.py).  In this part trades is the  *)
(* list of pages of the store; a page holds the store's properties under   *)
(* the names _parse_page gives them (position is the stored fraction,      *)
(* position_pct / 100).  fn is the last operation, args its arguments,     *)
(* result what it returned.                                                *)

\* text[:2000] of _rich_text; the empty text gives the empty property.
RichTextLimit == 2000

rich_text(text) == SubSeq(text, 1, IF Len(text) < RichTextLimit THEN Len(text) ELSE RichTextLimit)

\* round(x, 2)
round_2(x) == Rat(format_2f(x), 100)

\* client.pages.create(...) of sync_trade_plan
NewPage(plan) ==
    [ticker            |-> plan.ticker,
     direction         |-> plan.direction,
     status            |-> plan.status,
     entry_price       |-> plan.entry_price,
     position          |-> RDiv(plan.position_pct, Num(100)),
     profit_target     |-> plan.profit_target_1,
     price_stop        |-> plan.price_stop,
     actual_exit       |-> None,
     actual_return_pct |-> None,
     r_multiple        |-> None,
     deviation_pct     |-> None,
     psych_notes       |-> rich_text(plan.note)]

\* client.pages.update(page_id, properties): the named properties are
\* overwritten, a text one with its first 2000 characters.
update_trade_status(page, updates) ==
    [k \in DOMAIN page |->
        IF k \in DOMAIN updates
        THEN IF k = "psych_notes" THEN rich_text(updates[k]) ELSE updates[k]
        ELSE page[k]]

\* What close_trade returns.
CloseResult(page, exit_price) ==
    LET entry  == page.entry_price
        target == page.profit_target
    IN  [r_multiple |-> calc_r_multiple(entry, exit_price, page.price_stop, page.direction),
         return_pct |-> IF page.direction = "LONG"
                        THEN RDiv(RSub(exit_price, entry), entry)
                        ELSE RDiv(RSub(entry, exit_price), entry),
         deviation  |-> IF Truthy(target)
                        THEN RDiv(RAbs(RSub(exit_price, target)), target)
                        ELSE Num(0)]

\* The page after close_trade(page_id, exit_price, notes).
close_trade(page, exit_price, notes) ==
    LET res     == CloseResult(page, exit_price)
        updates == [status            |-> "CLOSED",
                    actual_exit       |-> exit_price,
                    actual_return_pct |-> res.return_pct,
                    r_multiple        |-> res.r_multiple,
                    deviation_pct     |-> res.deviation]
    IN  update_trade_status(page, IF notes # "" THEN updates @@ [psych_notes |-> notes]
                                  ELSE updates)

\* The page after add_psych_note(page_id, note).
add_psych_note(page, note) ==
    LET existing == page.psych_notes
        combined == IF existing # "" THEN existing \o "\n---\n" \o note ELSE note
    IN  update_trade_status(page, [psych_notes |-> combined])

MaxRecords == 1

\* A page takes a further note while its notes are no longer than this
\* (the notes given on closing are longer).
MaxNoteChars == 6

\* What the plan form submits: status is TradePlan's default, entry_price
\* and price_stop are positive.
Plans ==
    { [ticker |-> "AAPL", direction |-> "LONG", status |-> "PLANNED",
       entry_price |-> Num(100), position_pct |-> Num(10),
       profit_target_1 |-> Num(120), price_stop |-> Num(90), note |-> ""],
      [ticker |-> "MSFT", direction |-> "SHORT", status |-> "PLANNED",
       entry_price |-> Num(100), position_pct |-> Num(5),
       profit_target_1 |-> Num(80), price_stop |-> Num(110), note |-> "calm"] }

ExitPrices == {Num(90), Num(120)}

InitRecords == trades = <<>> /\ args = NoArgs /\ fn = "none" /\ result = NoCall

\* The plan form's submit button: sync_trade_plan(plan).
PlanFormSubmit ==
    /\ Len(trades) < MaxRecords
    /\ \E plan \in Plans :
          /\ trades' = Append(trades, NewPage(plan))
          /\ args' = [plan |-> plan]
    /\ fn' = "sync_trade_plan"
    /\ result' = [page_id |-> Len(trades) + 1]

\* log update PAGE_ID --status S
CliLogUpdate ==
    \E i \in 1..Len(trades), s \in {"PLANNED", "ACTIVE", "CLOSED"} :
        /\ trades' = [trades EXCEPT ![i] = update_trade_status(@, [status |-> s])]
        /\ args' = [page_id |-> i, status |-> s]
        /\ fn' = "log update"
        /\ result' = NoCall

\* log close PAGE_ID EXIT_PRICE [--notes N]
CliLogClose ==
    \E i \in 1..Len(trades), x \in ExitPrices, n \in {"", "stopped out"} :
        /\ trades' = [trades EXCEPT ![i] = close_trade(@, x, n)]
        /\ args' = [page_id |-> i, exit_price |-> x, notes |-> n]
        /\ fn' = "log close"
        /\ result' = CloseResult(trades[i], x)

\* log note PAGE_ID NOTE
CliLogNote ==
    \E i \in 1..Len(trades) :
        /\ Len(trades[i].psych_notes) <= MaxNoteChars
        /\ trades' = [trades EXCEPT ![i] = add_psych_note(@, "tired")]
        /\ args' = [page_id |-> i, note |-> "tired"]
        /\ fn' = "log note"
        /\ result' = NoCall

\* The page's close tab, shown for a record that is not CLOSED.
PageClose ==
    \E i \in 1..Len(trades), x \in ExitPrices, n \in {"", "stopped out"} :
        /\ trades[i].status # "CLOSED"
        /\ trades' = [trades EXCEPT ![i] = close_trade(@, x, n)]
        /\ args' = [page_id |-> i, exit_price |-> x, notes |-> n]
        /\ fn' = "page close"
        /\ result' = CloseResult(trades[i], x)

\* The page's add tab: a note, then the new cost and position.  The note
\* is written here without the numbers printed in it.
PageAdd ==
    \E i \in 1..Len(trades), add_price \in {Num(110)}, add_pct \in {Num(10)} :
        LET t        == trades[i]
            old_pos  == RMul(OrZero(t.position), Num(100))
            new_pos  == RAdd(old_pos, add_pct)
            new_cost == RDiv(RAdd(RMul(t.entry_price, old_pos), RMul(add_price, add_pct)),
                             new_pos)
        IN  /\ t.status # "CLOSED"
            /\ Len(t.psych_notes) <= MaxNoteChars
            /\ trades' = [trades EXCEPT ![i] =
                            update_trade_status(add_psych_note(@, "[add]"),
                                [entry_price |-> round_2(new_cost),
                                 position    |-> RDiv(new_pos, Num(100))])]
            /\ args' = [page_id |-> i, add_price |-> add_price, add_pct |-> add_pct]
            /\ fn' = "page add"
            /\ result' = NoCall

\* The page's reduce tab: a note, then the new position.
PageReduce ==
    \E i \in 1..Len(trades), reduce_pct \in {50} :
        LET t            == trades[i]
            position_pct == RMul(OrZero(t.position), Num(100))
            new_position == RMul(position_pct, RSub(Num(1), Rat(reduce_pct, 100)))
        IN  /\ t.status # "CLOSED"
            /\ Len(t.psych_notes) <= MaxNoteChars
            /\ trades' = [trades EXCEPT ![i] =
                            update_trade_status(add_psych_note(@, "[reduce]"),
                                [position |-> RDiv(new_position, Num(100))])]
            /\ args' = [page_id |-> i, reduce_pct |-> reduce_pct]
            /\ fn' = "page reduce"
            /\ result' = NoCall

\* The page's status tab: PLANNED or ACTIVE, whichever the record is not.
PageUpdateStatus ==
    \E i \in 1..Len(trades), new_status \in {"PLANNED", "ACTIVE"} :
        /\ trades[i].status # "CLOSED"
        /\ new_status # trades[i].status
        /\ trades' = [trades EXCEPT ![i] = update_trade_status(@, [status |-> new_status])]
        /\ args' = [page_id |-> i, status |-> new_status]
        /\ fn' = "page status"
        /\ result' = NoCall

\* The page's note tab.
PageAddNote ==
    \E i \in 1..Len(trades) :
        /\ trades[i].status # "CLOSED"
        /\ Len(trades[i].psych_notes) <= MaxNoteChars
        /\ trades' = [trades EXCEPT ![i] = add_psych_note(@, "tired")]
        /\ args' = [page_id |-> i, note |-> "tired"]
        /\ fn' = "page note"
        /\ result' = NoCall

NextRecords ==
    \/ PlanFormSubmit \/ CliLogUpdate \/ CliLogClose \/ CliLogNote
    \/ PageClose \/ PageAdd \/ PageReduce \/ PageUpdateStatus \/ PageAddNote

SpecRecords == InitRecords /\ [][NextRecords]_vars

\* C18 (as claimed): every record of the store whose status is CLOSED has
\* an actual_exit.
C18_ClosedCarriesActualExit ==
    \A i \in 1..Len(trades) :
        trades[i].status = "CLOSED" => ~IsNone(trades[i].actual_exit)

\* C19 (as claimed): no operation changes the status of a CLOSED record or
\* overwrites its actual_exit or r_multiple.
C19_ClosedIsTerminal ==
    [][\A i \in 1..Len(trades) :
          trades[i].status = "CLOSED" =>
             /\ trades'[i].status = "CLOSED"
             /\ trades'[i].actual_exit = trades[i].actual_exit
             /\ trades'[i].r_multiple = trades[i].r_multiple]_vars

----------------------------------------------------------------------------
(* The analytics functions as procedures on Python objects.  A list or a   *)
(* dict is an object that an in-place operation changes for everyone who   *)
(* holds it; a comprehension builds a new list that holds the same record  *)
(* dicts.  Here trades is the snapshot as the calls left it, args the      *)
(* snapshot as it was fetched, and result maps each function called so far *)
(* to what its last call returned.                                         *)

\* The lists of find_highlights before its sort.
HighlightsStore(ts) ==
    LET closed == SelectSeq(ts, IsClosedWithRMultiple)
    IN  [trades |-> ts, closed |-> closed, highlights |-> SelectSeq(closed, IsHighlight)]

\* The sort applied to the argument list instead.
SortInPlace_on_trades(store) == [store EXCEPT !.trades = sort_by_r_descending(@)]

\* highlights.sort(...): in place, on the list the comprehension built.
SortInPlace(store) == [store EXCEPT !.highlights = sort_by_r_descending(@)]

\* entry = by_ticker_pos[t["ticker"]]: the dict the default factory made
\* for the ticker, not a record of the input.
EntryObject(ts, i) == <<"entry", ts[i].ticker>>

\* The dicts after the first k rounds of calc_position_analysis's loop:
\* the record dicts <<"trade", i>> and the entries <<"entry", ticker>>.
RECURSIVE PositionHeap(_, _)
PositionHeap(ts, k) ==
    IF k = 0 THEN [id \in {<<"trade", i>> : i \in 1..Len(ts)} |-> ts[id[2]]]
    ELSE LET heap == PositionHeap(ts, k - 1)
             t    == heap[<<"trade", k>>]
             id   == EntryObject(ts, k)
             made == IF id \in DOMAIN heap THEN heap
                     ELSE heap @@ (id :> [position_pct |-> Num(0), status |-> "",
                                          direction |-> ""])
         IN  IF ~IsOpenPosition(t) THEN heap
             ELSE [made EXCEPT ![id] =
                     [@ EXCEPT !.position_pct = RAdd(@, t.position_pct),
                               !.status = t.status, !.direction = t.direction]]

\* The argument list as the call f(ts) leaves it.  calc_statistics,
\* find_error_fingerprints, calc_discipline_score, deep_analysis and
\* calc_risk_profile only read the records and append to lists and dicts
\* they made themselves.
InputAfter(f, ts) ==
    CASE f = "find_highlights" -> SortInPlace(HighlightsStore(ts)).trades
      [] f = "calc_position_analysis" ->
            [i \in 1..Len(ts) |-> PositionHeap(ts, Len(ts))[<<"trade", i>>]]
      [] OTHER -> ts

MaxFanOutTrades == 2

FanOutTrades ==
    { [BlankTrade EXCEPT !.status = "CLOSED", !.entry_emotion = "calm",
                         !.position_pct = Num(10), !.actual_exit = Num(110),
                         !.r_multiple = Num(1), !.actual_return_pct = Rat(1, 10)],
      [BlankTrade EXCEPT !.status = "CLOSED", !.entry_emotion = "confident",
                         !.position_pct = Num(5), !.actual_exit = Num(120),
                         !.r_multiple = Num(2), !.actual_return_pct = Rat(1, 5)],
      [BlankTrade EXCEPT !.status = "CLOSED", !.entry_emotion = "fomo",
                         !.position_pct = Num(20), !.actual_exit = Num(90),
                         !.r_multiple = Num(-1), !.actual_return_pct = Rat(-1, 10),
                         !.created = Created("iso", 9)],
      [BlankTrade EXCEPT !.status = "PLANNED", !.position_pct = Num(10)],
      [BlankTrade EXCEPT !.status = "ACTIVE", !.direction = "SHORT",
                         !.position_pct = Num(30)] }

InitFanOut == trades = <<>> /\ args = NoArgs /\ fn = "none" /\ result = NoCall

FanOutInput ==
    /\ fn = "none"
    /\ Len(trades) < MaxFanOutTrades
    /\ \E t \in FanOutTrades :
          /\ trades' = Append(trades, t)
          /\ args' = Append(args, t)
    /\ UNCHANGED <<fn, result>>

\* One more analytics call on the snapshot, in any order and however often.
CallFanOut ==
    \E f \in AnalyticsFunctions :
        /\ fn' = f
        /\ result' = [g \in (DOMAIN result \ {"none"}) \cup {f} |->
                        IF g = f THEN Returned(f, trades) ELSE result[g]]
        /\ trades' = InputAfter(f, trades)
        /\ UNCHANGED args

NextFanOut == FanOutInput \/ CallFanOut

SpecFanOut == InitFanOut /\ [][NextFanOut]_vars

\* C20: after any number of analytics calls in any order the snapshot is as
\* it was fetched (same length, same order, every field of every record),
\* and what each function returned is what it returns on the fetched
\* snapshot, whatever was called before it and however often.
C20_NoMutationNoCarriedState ==
    fn \in AnalyticsFunctions =>
        /\ trades = args
        /\ \A f \in DOMAIN result : result[f] = Returned(f, args)

C20_Witness ==
    /\ DOMAIN result = AnalyticsFunctions
    /\ fn = "calc_statistics"
    /\ Len(args) = 2
    /\ args[1].r_multiple = Num(1) /\ args[2].r_multiple = Num(2)
    /\ result["find_highlights"].items[1].r_multiple = Num(2)
    /\ trades[1].r_multiple = Num(1)
    /\ result["calc_statistics"].r_values = <<Num(1), Num(2)>>

----------------------------------------------------------------------------
(* Further properties of calc_risk_profile, checked under SpecRiskProfile *)

\* C21: for the empty trade list calc_risk_profile returns score 50, the
\* "insufficient data" label and no factors; for every non-empty list the
\* factor list is non-empty.
C21_EmptyDefaultElseFactors ==
    fn = "calc_risk_profile" =>
        /\ trades = <<>> =>
             /\ result.score = Num(50)
             /\ result.label = "insufficient data"
             /\ result.factors = <<>>
        /\ trades # <<>> => Len(result.factors) >= 1

C21_Witness ==
    /\ fn = "calc_risk_profile"
    /\ trades = <<>>
    /\ result.label = "insufficient data"

\* Calling calc_risk_profile on short lists of records whose position_pct
\* puts a one-record list's score on each threshold of the label chain
\* (163/30 -> 25, 55/6 -> 45, 331/30 -> 55, 443/30 -> 75) and on both sides
\* of it.
MaxLabelTrades == 2

LabelTrades ==
    { [BlankTrade EXCEPT !.position_pct = p, !.risk_reward = rr, !.win_rate = wr] :
        p  \in {Num(1), Rat(163, 30), Num(8), Rat(55, 6), Num(10), Rat(331, 30),
                Num(12), Rat(443, 30), Num(20)},
        rr \in {None, Num(2)},
        wr \in {None, Rat(3, 5)} }

InitRiskLabel == trades = <<>> /\ args = NoArgs /\ fn = "none" /\ result = NoCall

LabelInput ==
    /\ fn = "none"
    /\ Len(trades) < MaxLabelTrades
    /\ \E t \in LabelTrades : trades' = Append(trades, t)
    /\ UNCHANGED <<args, fn, result>>

CallRiskLabel ==
    /\ fn = "none"
    /\ fn' = "calc_risk_profile"
    /\ result' = calc_risk_profile(trades)
    /\ UNCHANGED <<trades, args>>

NextRiskLabel == LabelInput \/ CallRiskLabel

SpecRiskLabel == InitRiskLabel /\ [][NextRiskLabel]_vars

\* The label the thresholds give to a score.
ClaimedLabel(score) ==
    CASE RLe(Num(75), score)                          -> "aggressive"
      [] RLe(Num(55), score) /\ RLt(score, Num(75))   -> "leaning aggressive"
      [] RLe(Num(45), score) /\ RLt(score, Num(55))   -> "balanced"
      [] RLe(Num(25), score) /\ RLt(score, Num(45))   -> "leaning conservative"
      [] RLt(score, Num(25))                          -> "conservative"

\* C22: the label of a non-empty trade list is determined by the final
\* score alone: aggressive iff score >= 75, leaning aggressive iff
\* 55 <= score < 75, balanced iff 45 <= score < 55, leaning conservative iff
\* 25 <= score < 45, conservative iff score < 25.
C22_LabelFromScore ==
    (fn = "calc_risk_profile" /\ trades # <<>>) =>
        /\ result.label = ClaimedLabel(result.score)
        /\ result.label = "aggressive" <=> RLe(Num(75), result.score)
        /\ result.label = "leaning aggressive" <=>
               (RLe(Num(55), result.score) /\ RLt(result.score, Num(75)))
        /\ result.label = "balanced" <=>
               (RLe(Num(45), result.score) /\ RLt(result.score, Num(55)))
        /\ result.label = "leaning conservative" <=>
               (RLe(Num(25), result.score) /\ RLt(result.score, Num(45)))
        /\ result.label = "conservative" <=> RLt(result.score, Num(25))

\* A score on a threshold: exactly 55 is labelled leaning aggressive.
C22_Witness ==
    /\ fn = "calc_risk_profile"
    /\ trades # <<>>
    /\ result.score = Num(55)
    /\ result.label = "leaning aggressive"

----------------------------------------------------------------------------
(* utils.kelly_criterion(win_rate, risk_reward) *)

\* The formula without the clamp at 0.
kelly_criterion_unclamped(win_rate, risk_reward) ==
    IF RLe(risk_reward, Num(0)) THEN Num(0)
    ELSE RDiv(RSub(RMul(win_rate, risk_reward), RSub(Num(1), win_rate)), risk_reward)

kelly_criterion(win_rate, risk_reward) ==
    IF RLe(risk_reward, Num(0)) THEN Num(0)
    ELSE LET q == RSub(Num(1), win_rate)
             f == RDiv(RSub(RMul(win_rate, risk_reward), q), risk_reward)
         IN  RMax(Num(0), f)

\* Win rates are the multiples of 1/20 from 0 to MaxWinRateSteps / 20 (the
\* plan form's slider moves in steps of 5%), reward:risk ratios the
\* multiples of 1/10 from -2/10 to MaxRiskRewardSteps / 10.
MaxWinRateSteps == 20

MaxRiskRewardSteps == 30

WinRates == {Rat(k, 20) : k \in 0..MaxWinRateSteps}

RiskRewards == {Rat(k, 10) : k \in (-2)..MaxRiskRewardSteps}

InitKelly ==
    /\ trades = <<>>
    /\ args \in {[win_rate |-> w, risk_reward |-> b] : w \in WinRates, b \in RiskRewards}
    /\ fn = "none"
    /\ result = NoCall

CallKellyCriterion ==
    /\ fn = "none"
    /\ fn' = "kelly_criterion"
    /\ result' = [kelly |-> kelly_criterion(args.win_rate, args.risk_reward)]
    /\ UNCHANGED <<trades, args>>

NextKelly == CallKellyCriterion

SpecKelly == InitKelly /\ [][NextKelly]_vars

\* C23: kelly_criterion(winRate, riskReward) is
\* max(0, (winRate * riskReward - (1 - winRate)) / riskReward) when
\* riskReward > 0 and 0 when riskReward <= 0, so it is never negative; for
\* winRate 0.6 and riskReward 2 it is 0.4.
C23_KellyFormulaClamped ==
    fn = "kelly_criterion" =>
        LET w   == args.win_rate
            b   == args.risk_reward
            num == RSub(RMul(w, b), RSub(Num(1), w))
        IN  /\ RLe(Num(0), result.kelly)
            /\ RLe(b, Num(0)) => result.kelly = Num(0)
            /\ (RLt(Num(0), b) /\ RLe(num, Num(0))) => result.kelly = Num(0)
            /\ (RLt(Num(0), b) /\ RLt(Num(0), num)) => RMul(result.kelly, b) = num
            /\ (w = Rat(6, 10) /\ b = Num(2)) => result.kelly = Rat(4, 10)

C23_Witness ==
    /\ fn = "kelly_criterion"
    /\ args.win_rate = Rat(6, 10)
    /\ args.risk_reward = Num(2)
    /\ result.kelly = Rat(2, 5)

----------------------------------------------------------------------------
(* The plan form (input_logic.py, page 1) and sync_trade_plan.  args holds *)
(* the form's widgets; every edit reruns the script, which recomputes      *)
(* is_extreme and can_submit from the widgets; trades is the store.        *)

EXTREME_EMOTIONS == {"fearful", "fomo", "fatigued"}

\* st.text_input(...).upper().strip() on the texts the model types in.
upper_strip(text) ==
    CASE text = ""      -> ""
      [] text = " "     -> ""
      [] text = "aapl " -> "AAPL"

is_extreme(form) == form.emotion \in EXTREME_EMOTIONS

\* can_submit without the confirmation of an extreme emotion.
can_submit_unconfirmed(form) ==
    /\ upper_strip(form.ticker_input) # ""
    /\ form.thesis # ""
    /\ RLt(Num(0), form.entry_price)
    /\ RLt(Num(0), form.price_stop)

\* bool(ticker and thesis and entry_price > 0 and price_stop > 0), and
\* confirm_extreme when the emotion is extreme
can_submit(form) ==
    /\ upper_strip(form.ticker_input) # ""
    /\ form.thesis # ""
    /\ RLt(Num(0), form.entry_price)
    /\ RLt(Num(0), form.price_stop)
    /\ is_extreme(form) => form.confirm_extreme

\* The TradePlan built from the widgets, as NewPage reads it.
PlanOf(form) ==
    [ticker |-> upper_strip(form.ticker_input), direction |-> form.direction,
     status |-> "PLANNED", entry_price |-> form.entry_price,
     position_pct |-> Num(10), profit_target_1 |-> Num(120),
     price_stop |-> form.price_stop, note |-> ""]

\* The page sync_trade_plan creates, with its Entry Emotion and Thesis.
sync_trade_plan(form) ==
    NewPage(PlanOf(form)) @@
        [entry_emotion |-> form.emotion, thesis |-> rich_text(form.thesis)]

\* The store takes at most MaxPlans plans.
MaxPlans == 1

TickerInputs == {"", " ", "aapl "}

ThesisInputs == {"", "breakout"}

FormDirections == {"LONG", "SHORT"}

StopInputs == {Num(90), Num(100), Num(110)}

EmotionInputs == {"calm", "fearful", "fomo", "fatigued"}

\* The widgets' default values.
InitPlanForm ==
    /\ trades = <<>>
    /\ args = [ticker_input |-> "", direction |-> "LONG", thesis |-> "",
               entry_price |-> Num(100), price_stop |-> Num(90),
               emotion |-> "calm", confirm_extreme |-> FALSE]
    /\ fn = "none"
    /\ result = NoCall

EditTicker ==
    /\ \E v \in TickerInputs : args' = [args EXCEPT !.ticker_input = v]
    /\ fn' = "rerun"
    /\ UNCHANGED <<trades, result>>

EditDirection ==
    /\ \E v \in FormDirections : args' = [args EXCEPT !.direction = v]
    /\ fn' = "rerun"
    /\ UNCHANGED <<trades, result>>

EditThesis ==
    /\ \E v \in ThesisInputs : args' = [args EXCEPT !.thesis = v]
    /\ fn' = "rerun"
    /\ UNCHANGED <<trades, result>>

EditPriceStop ==
    /\ \E v \in StopInputs : args' = [args EXCEPT !.price_stop = v]
    /\ fn' = "rerun"
    /\ UNCHANGED <<trades, result>>

\* The confirmation checkbox is rendered only while the emotion is
\* extreme; a widget that is not rendered loses its value.
EditEmotion ==
    /\ \E v \in EmotionInputs :
          args' = [args EXCEPT !.emotion = v,
                               !.confirm_extreme = @ /\ v \in EXTREME_EMOTIONS]
    /\ fn' = "rerun"
    /\ UNCHANGED <<trades, result>>

TickConfirmExtreme ==
    /\ is_extreme(args)
    /\ args' = [args EXCEPT !.confirm_extreme = ~@]
    /\ fn' = "rerun"
    /\ UNCHANGED <<trades, result>>

\* The submit button, enabled iff can_submit.
SubmitPlan ==
    /\ can_submit(args)
    /\ Len(trades) < MaxPlans
    /\ trades' = Append(trades, sync_trade_plan(args))
    /\ fn' = "sync_trade_plan"
    /\ UNCHANGED <<args, result>>

NextPlanForm ==
    \/ EditTicker \/ EditDirection \/ EditThesis \/ EditPriceStop
    \/ EditEmotion \/ TickConfirmExtreme \/ SubmitPlan

SpecPlanForm == InitPlanForm /\ [][NextPlanForm]_vars

\* C24: every record created through the plan form and sync_trade_plan has
\* its price_stop on the risk side of entry_price: below it for LONG, above
\* it for SHORT.
C24_StopOnRiskSide ==
    \A i \in 1..Len(trades) :
        /\ trades[i].direction = "LONG"  => RLt(trades[i].price_stop, trades[i].entry_price)
        /\ trades[i].direction = "SHORT" => RLt(trades[i].entry_price, trades[i].price_stop)

\* C29: a plan whose entry emotion is fearful, fomo or fatigued is synced
\* only while the confirmation checkbox is ticked, and no plan is synced
\* with an empty ticker or an empty thesis.
C29_ExtremeNeedsConfirmation ==
    [][trades' # trades =>
          /\ trades' = Append(trades, trades'[Len(trades')])
          /\ LET page == trades'[Len(trades')]
             IN  /\ page.entry_emotion = args.emotion
                 /\ page.entry_emotion \in EXTREME_EMOTIONS => args.confirm_extreme
                 /\ page.ticker # ""
                 /\ page.thesis # ""]_vars

C29_Witness ==
    /\ fn = "sync_trade_plan"
    /\ Len(trades) = 1
    /\ trades[1].entry_emotion = "fomo"
    /\ trades[1].ticker = "AAPL"
    /\ args.confirm_extreme

----------------------------------------------------------------------------
(* The account-weighted return of calc_position_analysis, checked under    *)
(* SpecPositions                                                           *)

\* The sum of actual_return_pct * position_pct / 100 over the trades at the
\* positions S, a null return counting as 0.
RECURSIVE SumWeightedReturnOver(_)
SumWeightedReturnOver(S) ==
    IF S = {} THEN Num(0)
    ELSE LET i   == CHOOSE j \in S : TRUE
             ret == IF IsNone(trades[i].actual_return_pct) THEN Num(0)
                    ELSE trades[i].actual_return_pct
         IN  RAdd(RDiv(RMul(ret, trades[i].position_pct), Num(100)),
                  SumWeightedReturnOver(S \ {i}))

\* C25: the account-weighted return is the sum, over the trades with status
\* CLOSED and a non-null actual_exit, of actual_return_pct * position_pct /
\* 100, a null return contributing nothing.
C25_WeightedReturnOverClosedWithExit ==
    fn = "calc_position_analysis" =>
        result.total_weighted_return =
            SumWeightedReturnOver({i \in 1..Len(trades) :
                trades[i].status = "CLOSED" /\ ~IsNone(trades[i].actual_exit)})

----------------------------------------------------------------------------
(* The shape of deep_analysis's result, checked under SpecDeep *)

\* C26: for every input, the inputs with no closed trade that has an
\* r_multiple included, the result of deep_analysis carries an "insights"
\* list, the one key print_terminal_summary and the review page read.
C26_ResultCarriesInsights ==
    fn = "deep_analysis" =>
        /\ "insights" \in DOMAIN result
        /\ \E n \in 0..(2 * Len(trades)) : DOMAIN result.insights = 1..n

----------------------------------------------------------------------------
(* add_psych_note called repeatedly on one record.  trades holds the one   *)
(* page, args the notes passed so far.                                     *)

\* A text of n characters.
RECURSIVE Pad(_)
Pad(n) ==
    IF n = 0 THEN ""
    ELSE IF n % 2 = 0 THEN LET half == Pad(n \div 2) IN half \o half
    ELSE Pad(n - 1) \o "x"

\* At most MaxNotes notes are added.
MaxNotes == 3

\* Short notes, and two long ones (1200 and 1990 characters).
NoteTexts == {"tired", "fomo again", Pad(1200), Pad(1990)}

InitNotes ==
    /\ \E plan \in Plans :
          /\ trades = <<NewPage(plan)>>
          /\ args = [initial |-> plan.note, notes |-> <<>>]
    /\ fn = "none"
    /\ result = NoCall

\* log note PAGE_ID NOTE, or the page's note tab
AddPsychNote ==
    /\ Len(args.notes) < MaxNotes
    /\ \E note \in NoteTexts :
          /\ trades' = [trades EXCEPT ![1] = add_psych_note(@, note)]
          /\ args' = [args EXCEPT !.notes = Append(@, note)]
    /\ fn' = "add_psych_note"
    /\ UNCHANGED result

NextNotes == AddPsychNote

SpecNotes == InitNotes /\ [][NextNotes]_vars

\* The notes in the order given, each two joined by the separator.
RECURSIVE JoinNotes(_)
JoinNotes(notes) ==
    IF notes = <<>> THEN ""
    ELSE IF Len(notes) = 1 THEN notes[1]
    ELSE JoinNotes(SubSeq(notes, 1, Len(notes) - 1)) \o "\n---\n" \o notes[Len(notes)]

\* Everything written to the page's notes so far: the plan's note, if any,
\* then the notes added.
NotesSoFar == IF args.initial = "" THEN args.notes ELSE <<args.initial>> \o args.notes

\* C27: after any sequence of add_psych_note calls on one record the stored
\* Psych Notes text holds every note added so far, whole and in the order
\* added, separated by "\n---\n".
C27_EveryNoteKept ==
    trades[1].psych_notes = JoinNotes(NotesSoFar)

----------------------------------------------------------------------------
(* fetch_all_trades: the paginated query loop.  The store answers a query  *)
(* with one page of its chain of result pages: the first page when no      *)
(* start_cursor is given, else the page the cursor names, together with    *)
(* has_more and, when has_more, the cursor of the next page.  A cursor is  *)
(* the number of the page it names (2 or more); Python's None cursor is 0. *)
(* args holds the chain, the loop's locals and the cursors queried so far  *)
(* (0 for the query without a cursor); trades is the results list.         *)

\* The store's chain has at most MaxChainPages pages of at most
\* MaxPageSize records.
MaxChainPages == 3

MaxPageSize == 2

\* Record i of result page k as the store holds it: its Position % is a
\* fraction, empty on the first record of a page.
StoredPage(k, i) ==
    [id |-> <<k, i>>, position |-> IF i = 1 THEN None ELSE Rat(k, 10)]

\* The chain whose k-th result page has sizes[k] records.
ChainOf(sizes) ==
    [k \in 1..Len(sizes) |-> [i \in 1..sizes[k] |-> StoredPage(k, i)]]

Chains ==
    UNION { {ChainOf(sizes) : sizes \in [1..n -> 0..MaxPageSize]} : n \in 1..MaxChainPages }

\* _parse_page, on the properties kept here
parse_page(page) ==
    [page_id      |-> page.id,
     position_pct |-> RMul(OrZero(page.position), Num(100))]

\* client.databases.query(**kwargs): the response to a query whose
\* start_cursor is cursor (0 when kwargs has none).
query(chain, cursor) ==
    LET k == IF cursor = 0 THEN 1 ELSE cursor
    IN  [results     |-> chain[k],
         has_more    |-> k < Len(chain),
         next_cursor |-> IF k < Len(chain) THEN k + 1 ELSE 0]

\* The response's pages replace the results instead of extending them.
append_parsed_replacing(results, pages) ==
    [i \in 1..Len(pages) |-> parse_page(pages[i])]

\* for page in response["results"]: results.append(_parse_page(page))
append_parsed(results, pages) ==
    results \o [i \in 1..Len(pages) |-> parse_page(pages[i])]

\* results = [], has_more = True, start_cursor = None
InitFetch ==
    /\ trades = <<>>
    /\ \E chain \in Chains :
          args = [chain |-> chain, kwargs_cursor |-> 0, start_cursor |-> 0,
                  has_more |-> TRUE, queried |-> <<>>]
    /\ fn = "while"
    /\ result = NoCall

\* One pass of the while loop.
QueryNextPage ==
    /\ fn = "while"
    /\ args.has_more
    /\ LET kwargs_cursor == IF args.start_cursor # 0 THEN args.start_cursor
                            ELSE args.kwargs_cursor
           response      == query(args.chain, kwargs_cursor)
       IN  /\ trades' = append_parsed(trades, response.results)
           /\ args' = [args EXCEPT !.kwargs_cursor = kwargs_cursor,
                                   !.start_cursor  = response.next_cursor,
                                   !.has_more      = response.has_more,
                                   !.queried       = Append(@, kwargs_cursor)]
    /\ UNCHANGED <<fn, result>>

\* The loop's exit and return results.
ReturnResults ==
    /\ fn = "while"
    /\ ~args.has_more
    /\ fn' = "fetch_all_trades"
    /\ result' = [trades |-> trades]
    /\ UNCHANGED <<trades, args>>

NextFetch == QueryNextPage \/ ReturnResults

SpecFetch == InitFetch /\ [][NextFetch]_vars

\* The loop is the only thread of the call: a pass that can be taken is
\* taken.
FairSpecFetch == SpecFetch /\ WF_vars(NextFetch)

\* All records of the chain's first k pages, parsed, in page order.
RECURSIVE ParsedUpTo(_, _)
ParsedUpTo(chain, k) ==
    IF k = 0 THEN <<>>
    ELSE ParsedUpTo(chain, k - 1) \o [i \in 1..Len(chain[k]) |-> parse_page(chain[k][i])]

\* C28: on a finite chain of result pages fetch_all_trades terminates; it
\* queries no further once a response reports has_more false; no two
\* queries carry the same cursor; and it returns the records of all pages,
\* each exactly once, in page order.
C28_FetchesEveryPageOnce ==
    /\ <>(fn = "fetch_all_trades")
    /\ [](/\ \A i, j \in 1..Len(args.queried) : args.queried[i] = args.queried[j] => i = j
          /\ Len(args.queried) <= Len(args.chain)
          /\ ~args.has_more => Len(args.queried) = Len(args.chain)
          /\ trades = ParsedUpTo(args.chain, Len(args.queried))
          /\ fn = "fetch_all_trades" =>
                /\ result.trades = ParsedUpTo(args.chain, Len(args.chain))
                /\ \A i, j \in 1..Len(result.trades) :
                      result.trades[i].page_id = result.trades[j].page_id => i = j)

C28_Witness ==
    /\ fn = "fetch_all_trades"
    /\ Len(args.chain) = 3
    /\ args.queried = <<0, 2, 3>>
    /\ Len(result.trades) = 4

----------------------------------------------------------------------------
(* close_trade on a record of each direction of the schema.  trades holds  *)
(* the one page, args the page as it was and the exit price.               *)

\* Pages with each Direction option, the stop below, at and above the
\* entry price, the profit target set or empty.
ClosePages ==
    { [NewPage([ticker |-> "AAPL", direction |-> d, status |-> "ACTIVE",
                entry_price |-> Num(100), position_pct |-> Num(10),
                profit_target_1 |-> Num(120), price_stop |-> s, note |-> ""])
         EXCEPT !.profit_target = tg] :
        d \in Directions, s \in {Num(90), Num(100), Num(110)}, tg \in {None, Num(120)} }

InitClose ==
    /\ \E page \in ClosePages : trades = <<page>>
    /\ args = NoArgs
    /\ fn = "none"
    /\ result = NoCall

\* log close PAGE_ID EXIT_PRICE, or the page's close tab
CallCloseTrade ==
    /\ fn = "none"
    /\ \E x \in Prices :
          /\ trades' = [trades EXCEPT ![1] = close_trade(@, x, "")]
          /\ args' = [page |-> trades[1], exit_price |-> x]
          /\ result' = CloseResult(trades[1], x)
    /\ fn' = "close_trade"

NextClose == CallCloseTrade

SpecClose == InitClose /\ [][NextClose]_vars

\* C30: for every direction other than LONG, REDUCE_LONG and REDUCE_SHORT
\* included, close_trade stores and returns the R-multiple and the return
\* of a SHORT trade: (entry - exit) / (stop - entry), 0 when stop <= entry,
\* and (entry - exit) / entry.
C30_NonLongClosedAsShort ==
    (fn = "close_trade" /\ args.page.direction # "LONG") =>
        LET entry == args.page.entry_price
            stop  == args.page.price_stop
            x     == args.exit_price
            risk  == RSub(stop, entry)
            short == close_trade([args.page EXCEPT !.direction = "SHORT"], x, "")
        IN  /\ RLt(Num(0), risk) => RMul(result.r_multiple, risk) = RSub(entry, x)
            /\ RLe(risk, Num(0)) => result.r_multiple = Num(0)
            /\ RMul(result.return_pct, entry) = RSub(entry, x)
            /\ trades[1].r_multiple = result.r_multiple
            /\ trades[1].actual_return_pct = result.return_pct
            /\ trades[1].r_multiple = short.r_multiple
            /\ trades[1].actual_return_pct = short.actual_return_pct
            /\ trades[1].direction = args.page.direction

\* A REDUCE_LONG record with its stop below the entry, closed above the
\* entry: R-multiple 0 and a negative return.
C30_Witness ==
    /\ fn = "close_trade"
    /\ args.page.direction = "REDUCE_LONG"
    /\ args.page.price_stop = Num(90)
    /\ args.exit_price = Num(120)
    /\ trades[1].status = "CLOSED"
    /\ trades[1].r_multiple = Num(0)
    /\ trades[1].actual_return_pct = Rat(-1, 5)

============================================================================
